---- MODULE Spec2Model ----
(***************************************************************************)
(* git-change: the change-branch lifecycle (create / update / rebase /     *)
(* list / submit / gc) over a local git repository and a Gerrit server,    *)
(* and the pure functions of its text layer (branch-name parsing, the push *)
(* command, the owners resolver), each run from bounded sets of arguments. *)
(*                                                                         *)
(* Strings are sequences of one-character strings, so that startswith,     *)
(* split and strip are computed as Python computes them.  The local git    *)
(* commands are functions of the modelled repository (branch set, tips,    *)
(* commit graph, checked-out branch, index); the interactive commit, the   *)
(* push and the Gerrit query are answered by the environment.              *)
(***************************************************************************)
EXTENDS Integers, Sequences, FiniteSets, TLC

\* ------------------------------------------------------------------ bounds
\* Number of git-change invocations in one behaviour.
MaxRuns == 2


\* Longest suffix of the branch names given to get_change_id_from_branch.
MaxSuffixLen == 3


\* Longest --reviewers / --cc list given to build_push_command.
MaxEntries == 2


\* Depth of the directory tree below the repository root.
MaxDepth == 2

\* Most slash-separated segments of the refs given to get_branch.
MaxSegments == 4

\* Most lines of a Gerrit query response given to search_gerrit.
MaxLines == 3

\* ----------------------------------------------------------------- strings
None == <<"None">>              \* Python's None (no string has this shape)
ValueError == <<"ValueError">>  \* a tuple-unpacking failure

NL == "\n"
CHANGE_I == <<"c","h","a","n","g","e","-","I">>
CHANGE_DASH == <<"c","h","a","n","g","e","-">>
TMP_CHANGE_DASH == <<"t","m","p","-","c","h","a","n","g","e","-">>
CHANGE_ID_COLON == <<"C","h","a","n","g","e","-","I","d",":">>
MASTER == <<"m","a","s","t","e","r">>

StartsWith(s, p) == Len(s) >= Len(p) /\ SubSeq(s, 1, Len(p)) = p

\* str.split(sep) for a one-character separator
RECURSIVE Split(_, _)
Split(s, sep) ==
    IF \A i \in 1..Len(s) : s[i] # sep THEN <<s>>
    ELSE LET k == CHOOSE i \in 1..Len(s) :
                    s[i] = sep /\ \A j \in 1..(i-1) : s[j] # sep
         IN  <<SubSeq(s, 1, k-1)>> \o Split(SubSeq(s, k+1, Len(s)), sep)

Whitespace == {" ", "\n", "\t", "\r"}

\* str.strip()
RECURSIVE Strip(_)
Strip(s) ==
    IF s = <<>> THEN s
    ELSE IF s[1] \in Whitespace THEN Strip(Tail(s))
    ELSE IF s[Len(s)] \in Whitespace THEN Strip(SubSeq(s, 1, Len(s)-1))
    ELSE s

\* The timestamp suffix of the temp branch, one digit per clock tick.
Digits == <<"1","2","3","4","5","6","7","8","9">>
TmpBranchName(t) == TMP_CHANGE_DASH \o <<Digits[t]>>
ChangeBranchName(id) == CHANGE_DASH \o id

\* --------------------------------------------------- branch / head parsing
\* get_change_id_from_branch on a branch name: the id, None, or ValueError
\* when the name does not split into exactly two pieces.
GetChangeIdFromBranch(branch) ==
    IF StartsWith(branch, CHANGE_I)
    THEN LET parts == Split(branch, "-")
         IN  IF Len(parts) = 2 THEN parts[2] ELSE ValueError
    ELSE None

\* get_change_id_from_head on the text printed by git cat-file -p HEAD.
RECURSIVE FirstChangeIdLine(_)
FirstChangeIdLine(lines) ==
    IF lines = <<>> THEN None
    ELSE IF StartsWith(Head(lines), CHANGE_ID_COLON)
         THEN LET parts == Split(Head(lines), ":")
              IN  IF Len(parts) = 2 THEN Strip(parts[2]) ELSE ValueError
         ELSE FirstChangeIdLine(Tail(lines))

GetChangeIdFromHead(output) == FirstChangeIdLine(Split(output, NL))

\* str.lower() on the letters the prompts read
LowerChar(c) == IF c = "Y" THEN "y" ELSE IF c = "N" THEN "n" ELSE c
Lower(s) == [i \in 1..Len(s) |-> LowerChar(s[i])]

\* -------------------------------------------------------- commit messages
IdA == <<"I","a">>
IdHyphen == <<"I","a","-","b">>
SUBJECT == <<"f","i","x">>
MsgNoId == SUBJECT \o <<NL>>
MsgWith(id) == SUBJECT \o <<NL, NL>> \o CHANGE_ID_COLON \o <<" ">> \o id \o <<NL>>
\* What the editor and the commit-msg hook can leave as the commit message.
Ids == {IdA, IdHyphen}
Messages == {MsgNoId} \cup {MsgWith(id) : id \in Ids}
\* Exit statuses of a failed child process (git uses 1 and 128).
FailCodes == {1, 128}
\* What the user can type at a yes/no prompt.
Answers == {<<"y">>, <<"Y","e","s">>, <<"n">>, <<>>}


\* str.isdigit() and int() on what is typed at the selection prompt
DecimalDigits == <<"0","1","2","3","4","5","6","7","8","9">>
IsDigit(s) == s # <<>> /\ \A i \in 1..Len(s) : \E v \in 1..Len(DecimalDigits) : DecimalDigits[v] = s[i]
DigitValue(c) == (CHOOSE v \in 1..Len(DecimalDigits) : DecimalDigits[v] = c) - 1
RECURSIVE ParseInt(_)
ParseInt(s) ==
    IF Len(s) = 1 THEN DigitValue(s[1])
    ELSE ParseInt(SubSeq(s, 1, Len(s) - 1)) * Len(DecimalDigits) + DigitValue(s[Len(s)])
\* list[k] for a Python index k of a list bound to 1..Len
PyItem(list, k) == IF k >= 0 THEN list[k + 1] ELSE list[Len(list) + k + 1]
\* What the user can type at the selection prompt; EOF stands for Ctrl-D
\* and Ctrl-C.
EOF == <<"EOF">>
Selections == {<<>>, <<"0">>, <<"1">>, <<"2">>, <<"9">>, <<"x">>, <<" ">>}

\* ------------------------------------------------- the local git repository
\* A repository is a record
\*   branches : the set of local branch names
\*   tip      : branch -> commit (an index into commits)
\*   commits  : sequence of [parent, msg, adate]; commit 0 stands for the
\*              history older than the commits made here
\*   current  : the checked-out branch
\*   staged   : TRUE when the index differs from HEAD
Parent(commits, c) == IF c = 0 THEN 0 ELSE commits[c].parent
Message(commits, c) == IF c = 0 THEN MsgNoId ELSE commits[c].msg
AuthorDate(commits, c) == IF c = 0 THEN 0 ELSE commits[c].adate

RECURSIVE IsAncestor(_, _, _)
IsAncestor(commits, a, c) ==
    IF a = c THEN TRUE
    ELSE IF c = 0 THEN FALSE
    ELSE IsAncestor(commits, a, commits[c].parent)

HeadCommit(r) == r.tip[r.current]

\* b is fully merged into HEAD (what git branch -d requires)
FullyMerged(r, b) == IsAncestor(r.commits, r.tip[b], HeadCommit(r))

Ok(r) == [rc |-> 0, repo |-> r]
Failed(code, r) == [rc |-> code, repo |-> r]

\* git checkout <b>
GitCheckout(r, b) ==
    IF b \in r.branches THEN Ok([r EXCEPT !.current = b]) ELSE Failed(1, r)

\* git checkout -b <b>
GitCheckoutNew(r, b) ==
    IF b \in r.branches THEN Failed(128, r)
    ELSE Ok([r EXCEPT !.branches = @ \cup {b},
                      !.tip = [x \in r.branches \cup {b} |->
                                 IF x = b THEN HeadCommit(r) ELSE r.tip[x]],
                      !.current = b])

\* git branch -m <old> <new>
GitBranchMove(r, old, new) ==
    IF old \notin r.branches \/ (new \in r.branches /\ new # old) THEN Failed(128, r)
    ELSE Ok([r EXCEPT !.branches = (@ \ {old}) \cup {new},
                      !.tip = [x \in (r.branches \ {old}) \cup {new} |->
                                 IF x = new THEN r.tip[old] ELSE r.tip[x]],
                      !.current = IF r.current = old THEN new ELSE r.current])

\* mutant: the forced delete, git branch -D <b>
GitBranchDeleteForce(r, b) ==
    IF b \in r.branches /\ b # r.current
    THEN Ok([r EXCEPT !.branches = @ \ {b},
                      !.tip = [x \in r.branches \ {b} |-> r.tip[x]]])
    ELSE Failed(1, r)

\* git branch -d <b>: the safe delete
GitBranchDelete(r, b) ==
    IF b \in r.branches /\ b # r.current /\ FullyMerged(r, b)
    THEN Ok([r EXCEPT !.branches = @ \ {b},
                      !.tip = [x \in r.branches \ {b} |-> r.tip[x]]])
    ELSE Failed(1, r)

\* git reset --soft HEAD^ : the commit's content goes back to the index
GitResetSoft(r) ==
    Ok([r EXCEPT !.tip[r.current] = Parent(r.commits, HeadCommit(r)),
                 !.staged = TRUE])

\* git reset --hard HEAD^
GitResetHard(r) ==
    Ok([r EXCEPT !.tip[r.current] = Parent(r.commits, HeadCommit(r)),
                 !.staged = FALSE])

\* git commit, with message m left by the editor and the hooks, at time t
GitCommit(r, m, t) ==
    IF ~r.staged THEN Failed(1, r)
    ELSE Ok([r EXCEPT !.commits = Append(@, [parent |-> HeadCommit(r), msg |-> m,
                                            adate |-> t]),
                      !.tip[r.current] = Len(r.commits) + 1,
                      !.staged = FALSE])

\* git commit --amend: replaces HEAD, keeping its parent and author date
GitCommitAmend(r, m) ==
    Ok([r EXCEPT !.commits = Append(@, [parent |-> Parent(r.commits, HeadCommit(r)),
                                       msg |-> m,
                                       adate |-> AuthorDate(r.commits, HeadCommit(r))]),
                 !.tip[r.current] = Len(r.commits) + 1,
                 !.staged = FALSE])


\* git pull --rebase that succeeds, the remote branch being at commit c, a
\* descendant of the local tip
GitPullRebase(r, c) == Ok([r EXCEPT !.tip[r.current] = c])

\* git rebase <target> that succeeds: nothing to do, a fast-forward, or the
\* tip commit replayed on the tip of target
GitRebase(r, target) ==
    LET onto == r.tip[target]
        head == HeadCommit(r)
    IN  IF IsAncestor(r.commits, onto, head) THEN Ok(r)
        ELSE IF IsAncestor(r.commits, head, onto) THEN Ok([r EXCEPT !.tip[r.current] = onto])
        ELSE Ok([r EXCEPT !.commits = Append(@, [parent |-> onto,
                                                msg |-> Message(r.commits, head),
                                                adate |-> AuthorDate(r.commits, head)]),
                          !.tip[r.current] = Len(r.commits) + 1])

\* git rev-parse --verify HEAD
Sha(c) == <<Digits[c]>>
RevParseHead(r) == Sha(HeadCommit(r)) \o <<NL>>

\* git cat-file -p HEAD: header lines, a blank line, the message
CatFileHead(r) ==
    <<"t","r","e","e",NL,"a","u","t","h","o","r",NL,NL>> \o Message(r.commits, HeadCommit(r))

\* git symbolic-ref HEAD
SymbolicRefHead(r) ==
    <<"r","e","f","s","/","h","e","a","d","s","/">> \o r.current \o <<NL>>

GitError == <<"GitError">>

\* run_command raises CalledProcessError, a GitError, when git symbolic-ref
\* HEAD exits non-zero: HEAD is detached
CalledProcessError == <<"CalledProcessError">>
FAKE_BRANCH == <<"f","a","k","e","-","b","r","a","n","c","h">>

\* mutant: the last segment is taken from any ref of three segments or more
GetBranchLastSegment(dry, output) ==
    IF dry THEN FAKE_BRANCH
    ELSE IF output = CalledProcessError THEN GitError
    ELSE LET parts == Split(output, "/")
         IN  IF Len(parts) >= 3 THEN Strip(parts[Len(parts)]) ELSE GitError

\* git.get_branch, lines 227-243, on what git symbolic-ref HEAD gives:
\* the branch name, or GitError for the exception it ends with
GetBranchFrom(dry, output) ==
    IF dry THEN FAKE_BRANCH
    ELSE IF output = CalledProcessError THEN GitError
    ELSE LET parts == Split(output, "/")
         IN  IF Len(parts) = 3 THEN Strip(parts[3]) ELSE GitError

\* git.get_branch in repository r, outside dry-run mode
GetBranch(r) == GetBranchFrom(FALSE, SymbolicRefHead(r))

\* git for-each-ref refs/heads/change-*
IsChangeRef(b) == StartsWith(b, CHANGE_DASH)

\* ------------------------------------------------------------------- state
VARIABLES
    repo,       \* the local repository
    gerrit,     \* the Gerrit server: a set of change records
    pc,         \* position of the running invocation ("idle" between runs)
    inv,        \* the invocation: subcommand, flags, repository at its start
    loc,        \* local variables of the running subcommand
    log,        \* commands issued by this invocation, with their exit status
    exitCode,   \* exit status of the process, meaningful when pc = "done"
    crashed,    \* the process ended by an uncaught exception (traceback)
    runs,       \* invocations started so far
    clock       \* time.time(), one tick per invocation

vars == <<repo, gerrit, pc, inv, loc, log, exitCode, crashed, runs, clock>>

NoFlags == [switch |-> FALSE, chain |-> FALSE, useHead |-> FALSE,
            mergeCommit |-> FALSE, amendFlags |-> FALSE, dryRun |-> FALSE]
NoChange == [id |-> None, branch |-> None, open |-> FALSE, project |-> None]
NoLocals == [original |-> None, target |-> None, tmp |-> None, new |-> None,
             change_id |-> None, code |-> 0, change |-> NoChange,
             todo |-> <<>>, unmerged |-> <<>>, deleted |-> FALSE,
             selection |-> None, printed |-> <<>>,
             ahead |-> FALSE, user_input |-> None]

InitRepo(m, st) ==
    [branches |-> {MASTER},
     tip      |-> [b \in {MASTER} |-> 1],
     commits  |-> <<[parent |-> 0, msg |-> m, adate |-> 0]>>,
     current  |-> MASTER,
     staged   |-> st]

NoInvocation == [sub |-> "none", flags |-> NoFlags, pre |-> InitRepo(MsgNoId, FALSE)]

Init ==
    /\ \E m \in {MsgNoId, MsgWith(IdA)}, st \in BOOLEAN : repo = InitRepo(m, st)
    /\ gerrit = {}
    /\ pc = "idle"
    /\ inv = NoInvocation
    /\ loc = NoLocals
    /\ log = <<>>
    /\ exitCode = 0
    /\ crashed = FALSE
    /\ runs = 0
    /\ clock = 0

\* ------------------------------------------------------- process plumbing
Goto(l) == pc' = l /\ UNCHANGED <<exitCode, crashed>>
\* sys.exit(code), also through exit_error and run_command_or_die
Exit(code) == pc' = "done" /\ exitCode' = code /\ crashed' = FALSE
\* an exception nobody catches: traceback, exit status 1
Crash == pc' = "done" /\ exitCode' = 1 /\ crashed' = TRUE

\* --dry-run: git.run_command (lines 114-116) and git.run_command_shell
\* (lines 195-197) print the command line and return without launching it,
\* and git.get_branch (lines 236-237) returns a fixed name.
DryRun == inv.flags.dryRun
DRY_RUN_NO_OUTPUT == <<"d","r","y","-","r","u","n","-","n","o","-","o","u","t","p","u","t">> \o <<NL>>
\* what a command whose real result would be res returns to its caller
Ran(res) == IF DryRun THEN [rc |-> 0, repo |-> repo] ELSE res
\* the text a reading command hands back
Output(text) == IF DryRun THEN DRY_RUN_NO_OUTPUT ELSE text
\* git diff --cached --name-status / git status --porcelain have output
HasStagedChanges == Output(IF repo.staged THEN <<"M", "\t", "f", NL>> ELSE <<>>) # <<>>
\* git.get_branch() as the subcommands call it
CurrentBranch == GetBranchFrom(DryRun, SymbolicRefHead(repo))
\* git cat-file -p HEAD as get_change_id_from_head reads it
HeadText == Output(CatFileHead(repo))

\* the log holds the commands that were launched
Entry(cmd, arg, rc, intr) ==
    [cmd |-> cmd, arg |-> arg, rc |-> rc, intr |-> intr, on |-> repo.current]
Issue(cmd, arg, rc) ==
    log' = IF DryRun THEN log ELSE Append(log, Entry(cmd, arg, rc, FALSE))

\* run_command on a local git command whose result is res: the command is
\* logged, the repository takes its effect, CalledProcessError is uncaught.
RunOrCrash(cmd, arg, res, next) ==
    /\ Issue(cmd, arg, Ran(res).rc)
    /\ repo' = Ran(res).repo
    /\ IF Ran(res).rc = 0 THEN Goto(next) ELSE Crash

\* ---------------------------------------------------------------- Gerrit
\* the Gerrit project the remote of this repository belongs to
PROJECT == <<"p">>
\* gerrit query change:<id>
Query(id) == {g \in gerrit : g.id = id}

\* The server's view after a successful push of HEAD to refs/for/<target>.
Pushed(r, target) ==
    LET id == GetChangeIdFromHead(CatFileHead(r))
    IN  IF id \in {None, ValueError} \/ \E g \in gerrit : g.id = id /\ g.branch = target
        THEN gerrit
        ELSE gerrit \cup {[id |-> id, branch |-> target, open |-> TRUE,
                             project |-> PROJECT]}

\* what a push of HEAD to refs/for/<target> leaves on the server
AfterPush(r, target) == IF DryRun THEN gerrit ELSE Pushed(r, target)

\* ---------------------------------------------------- starting, returning
Subcommands == {"create", "update", "gc", "rebase", "list", "submit", "print"}
\* main, lines 646-698, dispatching one of the subcommands subs
StartOneOf(subs) ==
    /\ pc = "idle"
    /\ runs < MaxRuns
    /\ \E sub \in subs :
       \E f \in [switch : BOOLEAN, chain : BOOLEAN, useHead : BOOLEAN,
                  mergeCommit : BOOLEAN, amendFlags : BOOLEAN, dryRun : BOOLEAN] :
          \* flags a subcommand never reads stay at their defaults
          /\ sub = "create" => ~f.amendFlags
          /\ sub = "update" => f = [NoFlags EXCEPT !.amendFlags = f.amendFlags,
                                                   !.dryRun = f.dryRun]
          /\ sub \notin {"create", "update"} => f = [NoFlags EXCEPT !.dryRun = f.dryRun]
          \* main: --merge-commit implies --use-head-commit
          /\ f.mergeCommit => f.useHead
          /\ inv' = [sub |-> sub, flags |-> f, pre |-> repo]
          /\ pc' = IF sub = "create" THEN "c_staged"
                    ELSE IF sub = "update" THEN "u_check"
                    ELSE IF sub = "rebase" THEN "r_check"
                    ELSE IF sub = "list" THEN "l_list"
                    ELSE IF sub = "submit" THEN "s_check"
                    ELSE IF sub = "print" THEN "p_id" ELSE "g_list"
    /\ runs' = runs + 1
    /\ clock' = clock + 1
    /\ loc' = NoLocals
    /\ log' = <<>>
    /\ exitCode' = 0
    /\ crashed' = FALSE
    /\ UNCHANGED <<repo, gerrit>>

Start == StartOneOf(Subcommands)

\* the process has exited; the user is back at the prompt
Return ==
    /\ pc = "done"
    /\ pc' = "idle"
    /\ inv' = NoInvocation
    /\ loc' = NoLocals
    /\ log' = <<>>
    /\ exitCode' = 0
    /\ crashed' = FALSE
    /\ UNCHANGED <<repo, gerrit, runs, clock>>

\* ---------------------------------------------------------- create_change
\* lines 429-432: staged changes are required unless --use-head-commit
CreateCheckStaged ==
    /\ pc = "c_staged"
    /\ IF ~inv.flags.useHead /\ ~HasStagedChanges THEN Exit(1) ELSE Goto("c_merge")
    /\ UNCHANGED <<repo, gerrit, inv, loc, log, runs, clock>>

\* lines 434-436: check_for_pending_changes, sanity_check_merge_commit
CreateMergeChecks ==
    /\ pc = "c_merge"
    /\ IF ~inv.flags.mergeCommit THEN Goto("c_branches")
       ELSE IF HasStagedChanges THEN Exit(1)
       ELSE \E looksLikeMerge \in BOOLEAN, answer \in Answers :
               IF looksLikeMerge \/ StartsWith(Lower(answer), <<"y">>)
               THEN Goto("c_branches") ELSE Exit(1)
    /\ UNCHANGED <<repo, gerrit, inv, loc, log, runs, clock>>


\* mutant: determine_branches without the test of line 393-395, so that
\* create goes on from a change branch when --chain was not given
CreateDetermineBranchesFromChange ==
    /\ pc = "c_branches"
    /\ LET original == CurrentBranch IN
       IF original = GitError
       THEN Crash /\ UNCHANGED <<loc, log>>
       ELSE IF inv.flags.chain
       THEN LET previous == GetChangeIdFromBranch(original) IN
            IF previous = ValueError THEN Crash /\ UNCHANGED <<loc, log>>
            ELSE IF previous = None THEN Exit(1) /\ UNCHANGED <<loc, log>>
            ELSE \E rc \in {0} \cup FailCodes :
                 /\ Issue("query", previous, rc)
                 /\ IF rc # 0 THEN Crash /\ UNCHANGED loc
                    ELSE IF Cardinality(Query(previous)) # 1
                    THEN Exit(1) /\ UNCHANGED loc
                    ELSE /\ Goto("c_fetch")
                         /\ loc' = [loc EXCEPT
                                !.original = original,
                                !.target = (CHOOSE g \in Query(previous) : TRUE).branch]
       ELSE /\ Goto("c_fetch")
            /\ loc' = [loc EXCEPT !.original = original, !.target = original]
            /\ UNCHANGED log
    /\ UNCHANGED <<repo, gerrit, inv, runs, clock>>

\* line 438: determine_branches
CreateDetermineBranches ==
    /\ pc = "c_branches"
    /\ LET original == CurrentBranch IN
       IF original = GitError
       THEN Crash /\ UNCHANGED <<loc, log>>
       ELSE IF inv.flags.chain
       THEN LET previous == GetChangeIdFromBranch(original) IN
            IF previous = ValueError THEN Crash /\ UNCHANGED <<loc, log>>
            ELSE IF previous = None THEN Exit(1) /\ UNCHANGED <<loc, log>>
            ELSE \E rc \in {0} \cup FailCodes :
                 /\ Issue("query", previous, rc)
                 /\ IF rc # 0 THEN Crash /\ UNCHANGED loc
                    ELSE IF Cardinality(Query(previous)) # 1
                    THEN Exit(1) /\ UNCHANGED loc
                    ELSE /\ Goto("c_fetch")
                         /\ loc' = [loc EXCEPT
                                !.original = original,
                                !.target = (CHOOSE g \in Query(previous) : TRUE).branch]
       ELSE IF StartsWith(original, CHANGE_I)
            THEN Exit(1) /\ UNCHANGED <<loc, log>>
            ELSE /\ Goto("c_fetch")
                 /\ loc' = [loc EXCEPT !.original = original, !.target = original]
                 /\ UNCHANGED log
    /\ UNCHANGED <<repo, gerrit, inv, runs, clock>>

\* lines 442-443: git fetch when --fetch was given. Whether the original
\* branch has commits its remote counterpart lacks is a fact of the world
\* from here on (loc.ahead), whatever part of the code reads it.
CreateFetch ==
    /\ pc = "c_fetch"
    /\ \E fetch \in BOOLEAN, rc \in {0} \cup FailCodes, ahead \in BOOLEAN :
          IF fetch /\ rc # 0 /\ ~DryRun
          THEN Crash /\ UNCHANGED loc
          ELSE Goto("c_unmerged") /\ loc' = [loc EXCEPT !.ahead = ahead]
    /\ UNCHANGED <<repo, gerrit, inv, log, runs, clock>>

\* mutant: check_unmerged_commits that returns False whatever is answered
CreateCheckUnmergedAnyAnswer ==
    /\ pc = "c_unmerged"
    /\ IF inv.flags.chain \/ inv.flags.mergeCommit
       THEN Goto("c_checkout_b") /\ UNCHANGED loc
       ELSE IF ~loc.ahead \/ DryRun
       THEN Goto("c_checkout_b") /\ UNCHANGED loc
       ELSE \E user_input \in Answers :
               /\ loc' = [loc EXCEPT !.user_input = user_input]
               /\ Goto("c_checkout_b")
    /\ UNCHANGED <<repo, gerrit, inv, log, runs, clock>>

\* lines 450-452: check_unmerged_commits(original_branch), lines 201-218
CreateCheckUnmerged ==
    /\ pc = "c_unmerged"
    /\ IF inv.flags.chain \/ inv.flags.mergeCommit
       THEN Goto("c_checkout_b") /\ UNCHANGED loc
       ELSE IF ~loc.ahead \/ DryRun
       THEN Goto("c_checkout_b") /\ UNCHANGED loc
       ELSE \E user_input \in Answers :
               /\ loc' = [loc EXCEPT !.user_input = user_input]
               /\ IF StartsWith(Lower(user_input), <<"y">>)
                  THEN Goto("c_checkout_b") ELSE Exit(1)
    /\ UNCHANGED <<repo, gerrit, inv, log, runs, clock>>


\* mutant: git checkout -b is launched whether or not --dry-run was given
CreateTmpBranchLaunched ==
    /\ pc = "c_checkout_b"
    /\ LET tmp == TmpBranchName(clock)
           res == GitCheckoutNew(repo, tmp) IN
       /\ loc' = [loc EXCEPT !.tmp = tmp, !.ahead = FALSE, !.user_input = None]
       /\ log' = Append(log, Entry("checkout-b", tmp, res.rc, FALSE))
       /\ repo' = res.repo
       /\ IF res.rc = 0 THEN Goto("c_commit") ELSE Crash
    /\ UNCHANGED <<gerrit, inv, runs, clock>>

\* lines 456-457: git checkout -b tmp-change-<time>
CreateTmpBranch ==
    /\ pc = "c_checkout_b"
    /\ LET tmp == TmpBranchName(clock) IN
       /\ loc' = [loc EXCEPT !.tmp = tmp, !.ahead = FALSE, !.user_input = None]
       /\ RunOrCrash("checkout-b", tmp, GitCheckoutNew(repo, tmp), "c_commit")
    /\ UNCHANGED <<gerrit, inv, runs, clock>>

\* lines 459-460, 412-424: commit_staged_changes. The commit is interactive:
\* it succeeds with some message, is interrupted, or exits non-zero.
CreateCommit ==
    /\ pc = "c_commit"
    /\ IF inv.flags.useHead
       THEN Goto("c_change_id") /\ UNCHANGED <<repo, loc, log>>
       ELSE \/ \E m \in Messages :
                LET res == Ran(GitCommit(repo, m, clock)) IN
                /\ Issue("commit", loc.tmp, res.rc)
                /\ repo' = res.repo
                /\ IF res.rc = 0
                   THEN Goto("c_change_id") /\ UNCHANGED loc
                   ELSE Goto("c_commit_rb1") /\ loc' = [loc EXCEPT !.code = res.rc]
            \/ \* except KeyboardInterrupt: ... sys.exit(1)
               /\ ~DryRun
               /\ log' = Append(log, Entry("commit", loc.tmp, 0, TRUE))
               /\ loc' = [loc EXCEPT !.code = 1]
               /\ Goto("c_commit_rb1")
               /\ UNCHANGED repo
            \/ \* except CalledProcessError, e: ... sys.exit(e.returncode)
               \E rc \in FailCodes :
                /\ ~DryRun
                /\ Issue("commit", loc.tmp, rc)
                /\ loc' = [loc EXCEPT !.code = rc]
                /\ Goto("c_commit_rb1")
                /\ UNCHANGED repo
    /\ UNCHANGED <<gerrit, inv, runs, clock>>

\* mutant: the rollback forgets to check out the original branch
CreateCommitRollbackNoCheckout ==
    /\ pc = "c_commit_rb1"
    /\ Goto("c_commit_rb2")
    /\ UNCHANGED <<repo, gerrit, inv, loc, log, runs, clock>>

\* lines 416 / 422: git checkout <original_branch>
CreateCommitRollbackCheckout ==
    /\ pc = "c_commit_rb1"
    /\ RunOrCrash("checkout", loc.original, GitCheckout(repo, loc.original),
                  "c_commit_rb2")
    /\ UNCHANGED <<gerrit, inv, loc, runs, clock>>

\* lines 417-418 / 423-424: git branch -d <tmp_branch>, then sys.exit
CreateCommitRollbackDelete ==
    /\ pc = "c_commit_rb2"
    /\ LET res == Ran(GitBranchDelete(repo, loc.tmp)) IN
       /\ Issue("branch-d", loc.tmp, res.rc)
       /\ repo' = res.repo
       /\ IF res.rc = 0 THEN Exit(loc.code) ELSE Crash
    /\ UNCHANGED <<gerrit, inv, loc, runs, clock>>

\* mutant: the push is issued right after the Change-Id is read, before any
\* rename
CreateReadChangeIdThenPush ==
    /\ pc = "c_change_id"
    /\ LET id == GetChangeIdFromHead(HeadText) IN
       IF id = ValueError THEN Crash /\ UNCHANGED loc
       ELSE /\ loc' = [loc EXCEPT !.change_id = id, !.new = loc.tmp]
            /\ IF inv.flags.useHead /\ id = None
               THEN Goto("c_amend") ELSE Goto("c_push")
    /\ UNCHANGED <<repo, gerrit, inv, log, runs, clock>>

\* lines 463-464: change_id = get_change_id_from_head()
CreateReadChangeId ==
    /\ pc = "c_change_id"
    /\ LET id == GetChangeIdFromHead(HeadText) IN
       IF id = ValueError THEN Crash /\ UNCHANGED loc
       ELSE /\ loc' = [loc EXCEPT !.change_id = id]
            /\ IF inv.flags.useHead /\ id = None
               THEN Goto("c_amend") ELSE Goto("c_rename")
    /\ UNCHANGED <<repo, gerrit, inv, log, runs, clock>>

\* lines 467-468: commit_change(['--amend']) outside any try, then the
\* Change-Id is read again
CreateAmend ==
    /\ pc = "c_amend"
    /\ \/ \E m \in Messages :
            LET res == Ran(GitCommitAmend(repo, m))
                id  == GetChangeIdFromHead(Output(CatFileHead(res.repo))) IN
            /\ Issue("amend", loc.tmp, res.rc)
            /\ repo' = res.repo
            /\ IF id = ValueError THEN Crash /\ UNCHANGED loc
               ELSE Goto("c_rename") /\ loc' = [loc EXCEPT !.change_id = id]
       \/ /\ ~DryRun
          /\ log' = Append(log, Entry("amend", loc.tmp, 0, TRUE))
          /\ Crash
          /\ UNCHANGED <<repo, loc>>
       \/ \E rc \in FailCodes :
            /\ ~DryRun
            /\ Issue("amend", loc.tmp, rc)
            /\ Crash
            /\ UNCHANGED <<repo, loc>>
    /\ UNCHANGED <<gerrit, inv, runs, clock>>


\* lines 470-473: the warning that names the temp branch
NoChangeIdWarning(tmp_branch) == [msg |-> "no-change-id", branch |-> tmp_branch]

\* mutant: without a Change-Id create warns and gives up before the push
CreateRenameGivesUp ==
    /\ pc = "c_rename"
    /\ IF loc.change_id = None
       THEN /\ loc' = [loc EXCEPT !.new = loc.tmp,
                                  !.printed = Append(@, NoChangeIdWarning(loc.tmp))]
            /\ Exit(1)
            /\ UNCHANGED <<repo, log>>
       ELSE LET new == ChangeBranchName(loc.change_id) IN
            /\ loc' = [loc EXCEPT !.new = new]
            /\ RunOrCrash("branch-m", new, GitBranchMove(repo, loc.tmp, new), "c_push")
    /\ UNCHANGED <<gerrit, inv, runs, clock>>

\* mutant: the temp name is kept whether or not a Change-Id was read
CreateRenameKeepsTmp ==
    /\ pc = "c_rename"
    /\ loc' = [loc EXCEPT !.new = loc.tmp]
    /\ Goto("c_push")
    /\ UNCHANGED <<repo, log>>
    /\ UNCHANGED <<gerrit, inv, runs, clock>>

\* lines 469-478: keep the temp name without a Change-Id, else
\* git branch -m <tmp_branch> change-<id>
CreateRename ==
    /\ pc = "c_rename"
    /\ IF loc.change_id = None
       THEN /\ loc' = [loc EXCEPT !.new = loc.tmp,
                                  !.printed = Append(@, NoChangeIdWarning(loc.tmp))]
            /\ Goto("c_push")
            /\ UNCHANGED <<repo, log>>
       ELSE LET new == ChangeBranchName(loc.change_id) IN
            /\ loc' = [loc EXCEPT !.new = new]
            /\ RunOrCrash("branch-m", new, GitBranchMove(repo, loc.tmp, new), "c_push")
    /\ UNCHANGED <<gerrit, inv, runs, clock>>

\* mutant: in merge-commit mode the commit is taken off the original branch
\* whether or not the push went through
CreatePushThenResetAnyway ==
    /\ pc = "c_push"
    /\ \/ /\ Issue("push", loc.target, 0)
          /\ gerrit' = AfterPush(repo, loc.target)
          /\ IF inv.flags.mergeCommit THEN Goto("c_merge_co") ELSE Goto("c_switch_back")
          /\ UNCHANGED loc
       \/ \E rc \in FailCodes :
            /\ ~DryRun
            /\ Issue("push", loc.target, rc)
            /\ loc' = [loc EXCEPT !.code = rc]
            /\ IF inv.flags.mergeCommit THEN Goto("c_merge_co") ELSE Goto("c_push_rb1")
            /\ UNCHANGED gerrit
    /\ UNCHANGED <<repo, inv, runs, clock>>

\* lines 480-483: the push to refs/for/<target_branch>
CreatePush ==
    /\ pc = "c_push"
    /\ \/ /\ Issue("push", loc.target, 0)
          /\ gerrit' = AfterPush(repo, loc.target)
          /\ IF inv.flags.mergeCommit THEN Goto("c_merge_co") ELSE Goto("c_switch_back")
          /\ UNCHANGED loc
       \/ \E rc \in FailCodes :
            /\ ~DryRun
            /\ Issue("push", loc.target, rc)
            /\ loc' = [loc EXCEPT !.code = rc]
            /\ Goto("c_push_rb1")
            /\ UNCHANGED gerrit
    /\ UNCHANGED <<repo, inv, runs, clock>>

\* line 485: git reset --soft HEAD^
CreatePushRollbackReset ==
    /\ pc = "c_push_rb1"
    /\ RunOrCrash("reset-soft", loc.new, GitResetSoft(repo), "c_push_rb2")
    /\ UNCHANGED <<gerrit, inv, loc, runs, clock>>

\* mutant: the push rollback goes straight from the reset to the delete
CreatePushRollbackNoCheckout ==
    /\ pc = "c_push_rb2"
    /\ Goto("c_push_rb3")
    /\ UNCHANGED <<repo, gerrit, inv, loc, log, runs, clock>>

\* line 486: git checkout <original_branch>, run with the index as the soft
\* reset left it (the content of the commit that was undone, and what the
\* user had staged).  Without --use-head-commit the new branch is now at the
\* original branch's commit and the switch keeps the index.  With it the
\* original branch holds the undone commit: its content is no change there
\* and only the user's staged changes stay staged, unless they touch a file
\* that commit changed too, which git refuses to overwrite (exit status 1,
\* CalledProcessError raised inside the except clause).
CreatePushRollbackCheckout ==
    /\ pc = "c_push_rb2"
    /\ \/ LET res == Ran(GitCheckout(repo, loc.original)) IN
          RunOrCrash("checkout", loc.original,
                     IF res.rc = 0 /\ inv.flags.useHead
                     THEN Ok([res.repo EXCEPT !.staged = inv.pre.staged]) ELSE res,
                     "c_push_rb3")
       \/ /\ ~DryRun
          /\ inv.flags.useHead /\ inv.pre.staged
          /\ RunOrCrash("checkout", loc.original, Failed(1, repo), "c_push_rb3")
    /\ UNCHANGED <<gerrit, inv, loc, runs, clock>>

\* mutant: the rollback exits with status 1 whatever the push returned
CreatePushRollbackDeleteExitsOne ==
    /\ pc = "c_push_rb3"
    /\ LET res == Ran(GitBranchDelete(repo, loc.new)) IN
       /\ Issue("branch-d", loc.new, res.rc)
       /\ repo' = res.repo
       /\ IF res.rc = 0 THEN Exit(1) ELSE Crash
    /\ UNCHANGED <<gerrit, inv, loc, runs, clock>>

\* lines 487-488: git branch -d <new_branch>, then sys.exit(e.returncode)
CreatePushRollbackDelete ==
    /\ pc = "c_push_rb3"
    /\ LET res == Ran(GitBranchDelete(repo, loc.new)) IN
       /\ Issue("branch-d", loc.new, res.rc)
       /\ repo' = res.repo
       /\ IF res.rc = 0 THEN Exit(loc.code) ELSE Crash
    /\ UNCHANGED <<gerrit, inv, loc, runs, clock>>

\* line 497: merge-commit mode, git checkout <original_branch>
CreateMergeCheckout ==
    /\ pc = "c_merge_co"
    /\ RunOrCrash("checkout", loc.original, GitCheckout(repo, loc.original),
                  "c_merge_reset")
    /\ UNCHANGED <<gerrit, inv, loc, runs, clock>>

\* line 498: git reset --hard HEAD^
CreateMergeReset ==
    /\ pc = "c_merge_reset"
    /\ RunOrCrash("reset-hard", loc.original, GitResetHard(repo), "c_merge_switch")
    /\ UNCHANGED <<gerrit, inv, loc, runs, clock>>

\* lines 500-502: back to the new branch under --switch or --chain
CreateMergeSwitch ==
    /\ pc = "c_merge_switch"
    /\ IF inv.flags.switch \/ inv.flags.chain
       THEN LET res == Ran(GitCheckout(repo, loc.new)) IN
            /\ Issue("checkout", loc.new, res.rc)
            /\ repo' = res.repo
            /\ IF res.rc = 0 THEN Exit(0) ELSE Crash
       ELSE Exit(0) /\ UNCHANGED <<repo, log>>
    /\ UNCHANGED <<gerrit, inv, loc, runs, clock>>

\* mutant: create always stays on the new branch
CreateSwitchBackStays ==
    /\ pc = "c_switch_back"
    /\ Exit(0)
    /\ UNCHANGED <<repo, gerrit, inv, loc, log, runs, clock>>

\* mutant: only --switch keeps the new branch checked out
CreateSwitchBackUnlessSwitch ==
    /\ pc = "c_switch_back"
    /\ IF inv.flags.switch
       THEN Exit(0) /\ UNCHANGED <<repo, log>>
       ELSE LET res == Ran(GitCheckout(repo, loc.original)) IN
            /\ Issue("checkout", loc.original, res.rc)
            /\ repo' = res.repo
            /\ Exit(res.rc)
    /\ UNCHANGED <<gerrit, inv, loc, runs, clock>>

\* lines 507-510: stay under --switch or --chain, else
\* run_command_or_die('git checkout <original_branch>')
CreateSwitchBack ==
    /\ pc = "c_switch_back"
    /\ IF inv.flags.switch \/ inv.flags.chain
       THEN Exit(0) /\ UNCHANGED <<repo, log>>
       ELSE LET res == Ran(GitCheckout(repo, loc.original)) IN
            /\ Issue("checkout", loc.original, res.rc)
            /\ repo' = res.repo
            /\ Exit(res.rc)
    /\ UNCHANGED <<gerrit, inv, loc, runs, clock>>

Create ==
    \/ CreateCheckStaged \/ CreateMergeChecks \/ CreateDetermineBranches
    \/ CreateFetch \/ CreateCheckUnmerged \/ CreateTmpBranch
    \/ CreateCommit \/ CreateCommitRollbackCheckout \/ CreateCommitRollbackDelete
    \/ CreateReadChangeId \/ CreateAmend \/ CreateRename
    \/ CreatePush \/ CreatePushRollbackReset \/ CreatePushRollbackCheckout
    \/ CreatePushRollbackDelete
    \/ CreateMergeCheckout \/ CreateMergeReset \/ CreateMergeSwitch
    \/ CreateSwitchBack

\* ------------------------------------------------- check_for_change_branch
\* mutant: the HEAD commit's Change-Id is read but not compared
CheckForChangeBranchOnBranchOnly(branch, head) ==
    LET change_id == GetChangeIdFromBranch(branch)
    IN  IF branch = GitError \/ change_id = ValueError THEN [out |-> "raise", id |-> None]
        ELSE IF change_id = None THEN [out |-> "exit", id |-> None]
        ELSE [out |-> "return", id |-> change_id]

\* lines 246-268 on the current branch and the HEAD commit: the change id it
\* returns, "exit" for exit_error, "raise" for an uncaught exception.
CheckForChangeBranchOn(branch, head) ==
    LET change_id == GetChangeIdFromBranch(branch)
        head_change_id == GetChangeIdFromHead(head)
    IN  IF branch = GitError \/ change_id = ValueError THEN [out |-> "raise", id |-> None]
        ELSE IF change_id = None THEN [out |-> "exit", id |-> None]
        ELSE IF head_change_id = ValueError THEN [out |-> "raise", id |-> None]
        ELSE IF head_change_id = None THEN [out |-> "exit", id |-> None]
        ELSE IF head_change_id # change_id THEN [out |-> "exit", id |-> None]
        ELSE [out |-> "return", id |-> change_id]
\* on a repository, outside dry-run mode
CheckForChangeBranch(r) == CheckForChangeBranchOn(GetBranch(r), CatFileHead(r))

\* ---------------------------------------------------------- update_change
\* line 278: change_id = check_for_change_branch()
UpdateCheckBranch ==
    /\ pc = "u_check"
    /\ LET c == CheckForChangeBranchOn(CurrentBranch, HeadText) IN
       IF c.out = "raise" THEN Crash /\ UNCHANGED loc
       ELSE IF c.out = "exit" THEN Exit(1) /\ UNCHANGED loc
       ELSE Goto("u_get") /\ loc' = [loc EXCEPT !.change_id = c.id]
    /\ UNCHANGED <<repo, gerrit, inv, log, runs, clock>>

\* line 279: change = get_change(change_id), lines 221-243
UpdateGetChange ==
    /\ pc = "u_get"
    /\ \E rc \in {0} \cup FailCodes :
        /\ Issue("query", loc.change_id, rc)
        /\ IF rc # 0 THEN Crash /\ UNCHANGED loc
           ELSE IF Cardinality(Query(loc.change_id)) # 1 THEN Exit(1) /\ UNCHANGED loc
           ELSE /\ Goto("u_open")
                /\ loc' = [loc EXCEPT !.change = CHOOSE g \in Query(loc.change_id) : TRUE]
    /\ UNCHANGED <<repo, gerrit, inv, runs, clock>>

\* mutant: the open field is not looked at
UpdateCheckOpenIgnored ==
    /\ pc = "u_open"
    /\ Goto("u_amend")
    /\ UNCHANGED <<repo, gerrit, inv, loc, log, runs, clock>>

\* lines 280-281: the change must still be open
UpdateCheckOpen ==
    /\ pc = "u_open"
    /\ IF ~loc.change.open THEN Exit(1) ELSE Goto("u_amend")
    /\ UNCHANGED <<repo, gerrit, inv, loc, log, runs, clock>>


\* mutant: update that amends only when changes are staged
UpdateAmendOnlyWhenStaged ==
    /\ pc = "u_amend"
    /\ IF ~repo.staged
       THEN Goto("u_push") /\ UNCHANGED <<repo, log>>
       ELSE \/ \E m \in Messages :
                LET res == Ran(GitCommitAmend(repo, m)) IN
                /\ Issue("amend", repo.current, res.rc)
                /\ repo' = res.repo
                /\ Goto("u_push")
            \/ /\ ~DryRun
               /\ log' = Append(log, Entry("amend", repo.current, 0, TRUE))
               /\ Crash
               /\ UNCHANGED repo
            \/ \E rc \in FailCodes :
                /\ ~DryRun
                /\ Issue("amend", repo.current, rc)
                /\ Crash
                /\ UNCHANGED repo
    /\ UNCHANGED <<gerrit, inv, loc, runs, clock>>

\* lines 287-290: amend HEAD when flags were passed or changes are staged;
\* commit_change is called outside any try
UpdateAmend ==
    /\ pc = "u_amend"
    /\ IF ~(inv.flags.amendFlags \/ repo.staged)
       THEN Goto("u_push") /\ UNCHANGED <<repo, log>>
       ELSE \/ \E m \in Messages :
                LET res == Ran(GitCommitAmend(repo, m)) IN
                /\ Issue("amend", repo.current, res.rc)
                /\ repo' = res.repo
                /\ Goto("u_push")
            \/ /\ ~DryRun
               /\ log' = Append(log, Entry("amend", repo.current, 0, TRUE))
               /\ Crash
               /\ UNCHANGED repo
            \/ \E rc \in FailCodes :
                /\ ~DryRun
                /\ Issue("amend", repo.current, rc)
                /\ Crash
                /\ UNCHANGED repo
    /\ UNCHANGED <<gerrit, inv, loc, runs, clock>>


\* mutant: a failed push of update is rolled back the way create does it,
\* leaving the change's branch and deleting the change branch
UpdatePushRollsBack ==
    /\ pc = "u_push"
    /\ \/ /\ Issue("push", loc.change.branch, 0)
          /\ gerrit' = AfterPush(repo, loc.change.branch)
          /\ Exit(0)
          /\ UNCHANGED repo
       \/ \E rc \in FailCodes :
            /\ ~DryRun
            /\ Issue("push", loc.change.branch, rc)
            /\ repo' = GitBranchDeleteForce(GitCheckout(repo, loc.change.branch).repo,
                                            repo.current).repo
            /\ Exit(rc)
            /\ UNCHANGED gerrit
    /\ UNCHANGED <<inv, loc, runs, clock>>

\* mutant: update that pushes a second time when the first push fails
UpdatePushRetriesOnce ==
    /\ pc = "u_push"
    /\ \/ /\ Issue("push", loc.change.branch, 0)
          /\ gerrit' = AfterPush(repo, loc.change.branch)
          /\ Exit(0)
       \/ \E rc \in FailCodes :
            /\ ~DryRun
            /\ log' = log \o <<Entry("push", loc.change.branch, rc, FALSE),
                               Entry("push", loc.change.branch, 0, FALSE)>>
            /\ gerrit' = AfterPush(repo, loc.change.branch)
            /\ Exit(0)
    /\ UNCHANGED <<repo, inv, loc, runs, clock>>

\* lines 292-297: push to the change's branch; sys.exit(e.returncode) on failure
UpdatePush ==
    /\ pc = "u_push"
    /\ \/ /\ Issue("push", loc.change.branch, 0)
          /\ gerrit' = AfterPush(repo, loc.change.branch)
          /\ Exit(0)
       \/ \E rc \in FailCodes :
            /\ ~DryRun
            /\ Issue("push", loc.change.branch, rc)
            /\ Exit(rc)
            /\ UNCHANGED gerrit
    /\ UNCHANGED <<repo, inv, loc, runs, clock>>

Update == UpdateCheckBranch \/ UpdateGetChange \/ UpdateCheckOpen \/ UpdateAmend \/ UpdatePush

\* -------------------------------------------------------- garbage_collect
\* get_change_branches: refs/heads/change-* sorted by the author date of
\* each tip (equal dates in either order)
IsSortedByAuthorDate(r, seq) ==
    \A i, j \in 1..Len(seq) :
        i < j => AuthorDate(r.commits, r.tip[seq[i]]) <= AuthorDate(r.commits, r.tip[seq[j]])

GetChangeBranches(r) ==
    LET refs == {b \in r.branches : IsChangeRef(b)}
    IN  {seq \in [1..Cardinality(refs) -> refs] :
            /\ \A b \in refs : \E i \in 1..Cardinality(refs) : seq[i] = b
            /\ IsSortedByAuthorDate(r, seq)}

\* get_change_branches() as the subcommands call it, lines 560-566
ChangeBranchesListed ==
    IF DryRun THEN {Split(Strip(DRY_RUN_NO_OUTPUT), NL)} ELSE GetChangeBranches(repo)

\* line 616: for branch in get_change_branches()
GcList ==
    /\ pc = "g_list"
    /\ \E seq \in ChangeBranchesListed : loc' = [loc EXCEPT !.todo = seq]
    /\ Goto("g_loop")
    /\ UNCHANGED <<repo, gerrit, inv, log, runs, clock>>


\* lines 617-623: git branch -d <branch>; a refusal is remembered
GcDelete ==
    /\ pc = "g_loop"
    /\ loc.todo # <<>>
    /\ LET branch == Head(loc.todo)
           res == Ran(GitBranchDelete(repo, branch)) IN
       /\ Issue("branch-d", branch, res.rc)
       /\ repo' = res.repo
       /\ loc' = [loc EXCEPT !.todo = Tail(loc.todo),
                             !.unmerged = IF res.rc # 0 THEN Append(@, branch) ELSE @,
                             !.deleted = IF res.rc = 0 THEN TRUE ELSE @]
    /\ Goto("g_loop")
    /\ UNCHANGED <<gerrit, inv, runs, clock>>

\* lines 625-632: the report, then the process ends normally
GcReport ==
    /\ pc = "g_loop"
    /\ loc.todo = <<>>
    /\ Exit(0)
    /\ UNCHANGED <<repo, gerrit, inv, loc, log, runs, clock>>

GarbageCollect == GcList \/ GcDelete \/ GcReport


\* --------------------------------------- steps shared by rebase and submit
\* change_id = check_for_change_branch()
CheckBranchStep(next) ==
    /\ LET c == CheckForChangeBranchOn(CurrentBranch, HeadText) IN
       IF c.out = "raise" THEN Crash /\ UNCHANGED loc
       ELSE IF c.out = "exit" THEN Exit(1) /\ UNCHANGED loc
       ELSE Goto(next) /\ loc' = [loc EXCEPT !.change_id = c.id]
    /\ UNCHANGED <<repo, gerrit, inv, log, runs, clock>>

\* mutant: get_change that takes the first result whenever there is one
GetChangeStepFirstResult(next) ==
    /\ \E rc \in {0} \cup FailCodes :
        /\ Issue("query", loc.change_id, rc)
        /\ IF rc # 0 THEN Crash /\ UNCHANGED loc
           ELSE IF Cardinality(Query(loc.change_id)) < 1 THEN Exit(1) /\ UNCHANGED loc
           ELSE \E change \in Query(loc.change_id) :
                /\ Goto(next)
                /\ loc' = [loc EXCEPT !.change = change, !.target = change.branch,
                                      !.original = CurrentBranch]
    /\ UNCHANGED <<repo, gerrit, inv, runs, clock>>

\* change = get_change(change_id), lines 221-243; target_branch and
\* change_branch (kept in loc.original) are read right after
GetChangeStep(next) ==
    /\ \E rc \in {0} \cup FailCodes :
        /\ Issue("query", loc.change_id, rc)
        /\ IF rc # 0 THEN Crash /\ UNCHANGED loc
           ELSE IF Cardinality(Query(loc.change_id)) # 1 THEN Exit(1) /\ UNCHANGED loc
           ELSE LET change == CHOOSE g \in Query(loc.change_id) : TRUE IN
                /\ Goto(next)
                /\ loc' = [loc EXCEPT !.change = change, !.target = change.branch,
                                      !.original = CurrentBranch]
    /\ UNCHANGED <<repo, gerrit, inv, runs, clock>>


\* run_command_or_die('git checkout <b>')
CheckoutOrDie(b, next) ==
    /\ LET res == Ran(GitCheckout(repo, b)) IN
       /\ Issue("checkout", b, res.rc)
       /\ repo' = res.repo
       /\ IF res.rc = 0 THEN Goto(next) ELSE Exit(res.rc)
    /\ UNCHANGED <<gerrit, inv, loc, runs, clock>>

Say(msg, branch) == loc' = [loc EXCEPT !.printed = Append(@, [msg |-> msg, branch |-> branch])]

\* ----------------------------------------------------------------- rebase
\* line 525
RebaseCheckBranch == pc = "r_check" /\ CheckBranchStep("r_get")
\* lines 526-528
RebaseGetChange == pc = "r_get" /\ GetChangeStep("r_co_target")
\* line 530
RebaseCheckoutTarget == pc = "r_co_target" /\ CheckoutOrDie(loc.target, "r_pull")


\* mutant: a failed pull is reported and the rebase goes on
RebasePullFailureGoesOn ==
    /\ pc = "r_pull"
    /\ \/ \E c \in 1..Len(repo.commits) :
            /\ IsAncestor(repo.commits, HeadCommit(repo), c)
            /\ Issue("pull-rebase", loc.target, 0)
            /\ repo' = Ran(GitPullRebase(repo, c)).repo
            /\ Goto("r_co_change")
            /\ UNCHANGED loc
       \/ \E rc \in FailCodes :
            /\ ~DryRun
            /\ Issue("pull-rebase", loc.target, rc)
            /\ Say("rebase-failed", loc.target)
            /\ Goto("r_co_change")
            /\ UNCHANGED repo
    /\ UNCHANGED <<gerrit, inv, runs, clock>>

\* lines 531-538: git pull --rebase on the target branch; on failure the
\* branch to resolve is printed and the process exits with the same status
RebasePull ==
    /\ pc = "r_pull"
    /\ \/ \E c \in 1..Len(repo.commits) :
            /\ IsAncestor(repo.commits, HeadCommit(repo), c)
            /\ Issue("pull-rebase", loc.target, 0)
            /\ repo' = Ran(GitPullRebase(repo, c)).repo
            /\ Goto("r_co_change")
            /\ UNCHANGED loc
       \/ \E rc \in FailCodes :
            /\ ~DryRun
            /\ Issue("pull-rebase", loc.target, rc)
            /\ Say("rebase-failed", loc.target)
            /\ Exit(rc)
            /\ UNCHANGED repo
    /\ UNCHANGED <<gerrit, inv, runs, clock>>

\* line 540
RebaseCheckoutChange == pc = "r_co_change" /\ CheckoutOrDie(loc.original, "r_rebase")

\* lines 541-547: git rebase <target_branch> on the change branch
RebaseOntoTarget ==
    /\ pc = "r_rebase"
    /\ \/ /\ Issue("rebase", loc.target, 0)
          /\ repo' = Ran(GitRebase(repo, loc.target)).repo
          /\ Exit(0)
          /\ UNCHANGED loc
       \/ \E rc \in FailCodes :
            /\ ~DryRun
            /\ Issue("rebase", loc.target, rc)
            /\ Say("rebase-failed", loc.original)
            /\ Exit(rc)
            /\ UNCHANGED repo
    /\ UNCHANGED <<gerrit, inv, runs, clock>>

Rebase ==
    \/ RebaseCheckBranch \/ RebaseGetChange \/ RebaseCheckoutTarget
    \/ RebasePull \/ RebaseCheckoutChange \/ RebaseOntoTarget

\* --------------------------------------------------- list_change_branches
\* lines 575-584: the branches are listed, or there is none
ListBranches ==
    /\ pc = "l_list"
    /\ \E branches \in ChangeBranchesListed :
          IF branches = <<>>
          THEN Say("no-change-branches", None) /\ Exit(0)
          ELSE loc' = [loc EXCEPT !.todo = branches] /\ Goto("l_prompt")
    /\ UNCHANGED <<repo, gerrit, inv, log, runs, clock>>

\* lines 585-596: the selection prompt
ListSelect ==
    /\ pc = "l_prompt"
    /\ \E selection \in Selections \cup {EOF} :
          LET branches == loc.todo IN
          IF selection = EOF
          THEN /\ loc' = [loc EXCEPT !.selection = selection]
               /\ Exit(0)
               /\ UNCHANGED <<repo, log>>
          ELSE IF IsDigit(selection) /\ ParseInt(selection) <= Len(branches)
          THEN LET branch == PyItem(branches, ParseInt(selection) - 1)
                   res == Ran(GitCheckout(repo, branch)) IN
               /\ loc' = [loc EXCEPT !.selection = selection]
               /\ Issue("checkout", branch, res.rc)
               /\ repo' = res.repo
               /\ Exit(res.rc)
          ELSE IF selection # <<>>
          THEN /\ loc' = [loc EXCEPT !.selection = selection,
                                     !.printed = Append(@, [msg |-> "not-a-valid-selection",
                                                            branch |-> None])]
               /\ Exit(0)
               /\ UNCHANGED <<repo, log>>
          ELSE /\ loc' = [loc EXCEPT !.selection = selection]
               /\ Exit(0)
               /\ UNCHANGED <<repo, log>>
    /\ UNCHANGED <<gerrit, inv, runs, clock>>

List == ListBranches \/ ListSelect

\* ---------------------------------------------------------- submit_change
\* line 601
SubmitCheckBranch == pc = "s_check" /\ CheckBranchStep("s_get")
\* line 602
SubmitGetChange == pc = "s_get" /\ GetChangeStep("s_open")

\* mutant: the open field is not looked at
SubmitCheckOpenIgnored ==
    /\ pc = "s_open"
    /\ Goto("s_submit")
    /\ UNCHANGED <<repo, gerrit, inv, loc, log, runs, clock>>

\* lines 603-604
SubmitCheckOpen ==
    /\ pc = "s_open"
    /\ IF ~loc.change.open THEN Exit(1) ELSE Goto("s_submit")
    /\ UNCHANGED <<repo, gerrit, inv, loc, log, runs, clock>>

\* lines 606-609: gerrit review --project <project> --submit <commit>;
\* Gerrit merges the change or refuses
SubmitReview ==
    /\ pc = "s_submit"
    /\ LET commit == RevParseHead(repo)
           project == loc.change.project
           arg == project \o <<" ">> \o commit IN
       \/ /\ Issue("submit", arg, 0)
          /\ gerrit' = IF DryRun THEN gerrit
                        ELSE (gerrit \ {loc.change}) \cup {[loc.change EXCEPT !.open = FALSE]}
          /\ Exit(0)
       \/ \E rc \in FailCodes :
            /\ ~DryRun
            /\ Issue("submit", arg, rc)
            /\ Exit(rc)
            /\ UNCHANGED gerrit
    /\ UNCHANGED <<repo, inv, loc, runs, clock>>

Submit == SubmitCheckBranch \/ SubmitGetChange \/ SubmitCheckOpen \/ SubmitReview

\* ----------------------------------------------------- print_push_command
\* lines 637-642: the change id of the current branch decides where the
\* target branch is read from; without one it is git.get_branch()
PrintChangeId ==
    /\ pc = "p_id"
    /\ LET branch == CurrentBranch
           change_id == GetChangeIdFromBranch(branch) IN
       IF branch = GitError \/ change_id = ValueError THEN Crash /\ UNCHANGED loc
       ELSE IF change_id = None
       THEN Goto("p_print") /\ loc' = [loc EXCEPT !.target = branch]
       ELSE Goto("p_get") /\ loc' = [loc EXCEPT !.change_id = change_id]
    /\ UNCHANGED <<repo, gerrit, inv, log, runs, clock>>

\* lines 639-640: change = get_change(change_id); target_branch = change['branch']
PrintGetChange == pc = "p_get" /\ GetChangeStep("p_print")

\* line 643: print build_push_command(target_branch)
PrintCommand ==
    /\ pc = "p_print"
    /\ Say("push-command", loc.target)
    /\ Exit(0)
    /\ UNCHANGED <<repo, gerrit, inv, log, runs, clock>>

PrintPushCommand == PrintChangeId \/ PrintGetChange \/ PrintCommand

\* ---------------------------------------------------------- Gerrit's users
\* a reviewer submits or abandons an open change
GerritClose ==
    /\ pc = "idle"
    /\ \E g \in gerrit :
        /\ g.open
        /\ gerrit' = (gerrit \ {g}) \cup {[g EXCEPT !.open = FALSE]}
    /\ UNCHANGED <<repo, pc, inv, loc, log, exitCode, crashed, runs, clock>>

\* ------------------------------------------------------------- the user
\* between invocations the user stages changes or checks out a branch
UserStage ==
    /\ pc = "idle"
    /\ ~repo.staged
    /\ repo' = [repo EXCEPT !.staged = TRUE]
    /\ UNCHANGED <<gerrit, pc, inv, loc, log, exitCode, crashed, runs, clock>>

UserCheckout ==
    /\ pc = "idle"
    /\ \E b \in repo.branches \ {repo.current} : repo' = GitCheckout(repo, b).repo
    /\ UNCHANGED <<gerrit, pc, inv, loc, log, exitCode, crashed, runs, clock>>

Next ==
    \/ Start \/ Return
    \/ Create \/ Update \/ GarbageCollect
    \/ Rebase \/ List \/ Submit \/ PrintPushCommand
    \/ UserStage \/ UserCheckout \/ GerritClose

Spec == Init /\ [][Next]_vars

\* ================================================================= claims
Terminated == pc = "done"
CreateTerminated == Terminated /\ inv.sub = "create"
Issued(cmd) == {i \in 1..Len(log) : log[i].cmd = cmd}
IssuedOk(cmd) == {i \in Issued(cmd) : log[i].rc = 0 /\ ~log[i].intr}
IssuedFailed(cmd) == {i \in Issued(cmd) : log[i].rc # 0}
IssuedInterrupted(cmd) == {i \in Issued(cmd) : log[i].intr}
IsTmpName(b) == StartsWith(b, TMP_CHANGE_DASH)
\* the Change-Id trailer carried by the HEAD commit of branch b, read off
\* the message itself
TrailerOf(r, b) ==
    IF \E id \in Ids : Message(r.commits, r.tip[b]) = MsgWith(id)
    THEN CHOOSE id \in Ids : Message(r.commits, r.tip[b]) = MsgWith(id)
    ELSE None

\* create without --switch, --chain, --use-head-commit, --merge-commit, on a
\* tracking branch with staged changes, whose commit got a Change-Id and
\* whose push succeeded
PlainCreateSucceeded ==
    /\ CreateTerminated
    /\ inv.flags = NoFlags
    /\ ~StartsWith(inv.pre.current, CHANGE_DASH) /\ ~IsTmpName(inv.pre.current)
    /\ inv.pre.staged
    /\ IssuedOk("commit") # {}
    /\ loc.change_id # None
    /\ IssuedOk("push") # {}

C2_PushFailureRollsBack ==
    CreateTerminated =>
        \A i \in IssuedFailed("push") :
            /\ Len(log) = i + 3
            /\ log[i+1].cmd = "reset-soft" /\ log[i+1].rc = 0 /\ log[i+1].on = loc.new
            /\ log[i+2].cmd = "checkout" /\ log[i+2].arg = loc.original /\ log[i+2].rc = 0
            /\ log[i+3].cmd = "branch-d" /\ log[i+3].arg = loc.new /\ log[i+3].rc = 0
            /\ exitCode = log[i].rc
            /\ ~crashed
            /\ repo.current = loc.original
            /\ repo.current = inv.pre.current
            /\ loc.new \notin repo.branches

C2_Witness ==
    /\ CreateTerminated
    /\ \E i \in IssuedFailed("push") : log[i].rc = 128
    /\ loc.new = ChangeBranchName(IdA)
    /\ exitCode = 128

C4_InterruptRollsBack ==
    CreateTerminated =>
        \A i \in IssuedInterrupted("commit") \cup IssuedInterrupted("amend") :
            /\ repo.current = inv.pre.current
            /\ loc.tmp \notin repo.branches
            /\ Issued("push") = {}
            /\ exitCode # 0

\* C5 (as claimed): in create and update a commit, amend, push or branch
\* rename that exits with c # 0 ends the process with exit status c through
\* the handler of that step, never through an uncaught exception.
C5_MutatingFailureExitsWithItsCode ==
    (Terminated /\ inv.sub \in {"create", "update"}) =>
        \A i \in IssuedFailed("commit") \cup IssuedFailed("amend")
                 \cup IssuedFailed("push") \cup IssuedFailed("branch-m") :
            exitCode = log[i].rc /\ ~crashed

\* a termination through sys.exit or a return, not through a traceback
NormalCreateTermination == CreateTerminated /\ ~crashed

\* C6 (as claimed): at every normal termination of create no local branch
\* named tmp-change-* exists.
C6_NoTmpBranchAtTermination ==
    NormalCreateTermination => \A b \in repo.branches : ~IsTmpName(b)

\* C6 (amended): at every normal termination of create the temp branch this
\* create made has been renamed or deleted, except when HEAD carried no
\* Change-Id and the push succeeded: then, and only then, it is kept under
\* its tmp-change-* name.
C6_TmpBranchRenamedOrDeleted ==
    (NormalCreateTermination /\ loc.tmp # None) =>
        /\ loc.tmp \in repo.branches <=> (loc.change_id = None /\ IssuedOk("push") # {})
        /\ {b \in repo.branches : IsTmpName(b)} \subseteq
               {b \in inv.pre.branches : IsTmpName(b)} \cup {loc.tmp}

C6_Witness ==
    /\ NormalCreateTermination
    /\ loc.tmp # None
    /\ loc.change_id # None
    /\ IssuedOk("branch-m") # {}
    /\ loc.tmp \notin repo.branches
    /\ loc.new \in repo.branches

\* C7 (as claimed): whenever create issues the push, the temp branch has
\* been renamed before and the checked-out branch is named change-<id>.
C7_PushAfterRename ==
    inv.sub = "create" =>
        \A i \in Issued("push") :
            /\ \E j \in IssuedOk("branch-m") : j < i
            /\ StartsWith(log[i].on, CHANGE_DASH)

\* C7 (amended): whenever create issues the push and a Change-Id was read
\* from HEAD, the rename to change-<id> has succeeded before and the
\* checked-out branch is change-<id>; when no Change-Id was read, the push
\* is issued from the temp branch, which was never renamed.
C7_PushAfterRenameWhenIdFound ==
    inv.sub = "create" =>
        \A i \in Issued("push") :
            IF loc.change_id # None
            THEN /\ \E j \in IssuedOk("branch-m") :
                        j < i /\ log[j].arg = ChangeBranchName(loc.change_id)
                 /\ log[i].on = ChangeBranchName(loc.change_id)
                 /\ log[i].on # loc.tmp
            ELSE /\ Issued("branch-m") = {}
                 /\ log[i].on = loc.tmp

C7_Witness ==
    /\ inv.sub = "create"
    /\ loc.change_id = IdA
    /\ \E i \in Issued("push") : log[i].on = ChangeBranchName(IdA)

\* C8: a branch disappears through a delete only when it is fully merged
\* into HEAD and is not checked out (the delete is git branch -d, never
\* forced), and a branch whose delete was refused still exists when the
\* operation ends.
C8_StepDeletesOnlyMerged ==
    \A b \in repo.branches :
        (b \notin repo'.branches /\ repo'.branches \subseteq repo.branches)
            => FullyMerged(repo, b) /\ b # repo.current /\ b # repo'.current

C8_RefusedBranchKept ==
    Terminated => \A i \in IssuedFailed("branch-d") : log[i].arg \in repo.branches

C8_OnlySafeDeletes == [][C8_StepDeletesOnlyMerged]_vars /\ []C8_RefusedBranchKept

C8_Witness ==
    /\ Terminated
    /\ inv.sub = "gc"
    /\ IssuedFailed("branch-d") # {}
    /\ \A i \in IssuedFailed("branch-d") : ~FullyMerged(repo, log[i].arg)

\* C9 (as claimed): check_for_change_branch returns <id> exactly when the
\* current branch is change-<id>, id beginning with I, and HEAD carries the
\* trailer Change-Id: <id>; otherwise the process ends with a non-zero
\* status.  Read at update, right after its call at line 278.
SpecChangeId(r) ==
    IF /\ TrailerOf(r, r.current) # None
       /\ r.current = CHANGE_DASH \o TrailerOf(r, r.current)
       /\ StartsWith(r.current, CHANGE_I)
    THEN TrailerOf(r, r.current)
    ELSE None

C9_CheckForChangeBranch ==
    /\ (inv.sub = "update" /\ pc = "u_get") => loc.change_id = SpecChangeId(repo)
    /\ (inv.sub = "update" /\ Terminated /\ log = <<>>) =>
            SpecChangeId(repo) = None /\ exitCode # 0

\* C10: when the change update resolved is not open, update ends with a
\* non-zero status having issued no push and no amend.
ResolvedClosed == inv.sub = "update" /\ loc.change # NoChange /\ ~loc.change.open

C10_ClosedChangeNotPushed ==
    ResolvedClosed =>
        /\ Issued("push") = {} /\ Issued("amend") = {}
        /\ pc \in {"u_open", "done"}
        /\ Terminated => exitCode # 0 /\ repo = inv.pre

C10_Witness == ResolvedClosed /\ Terminated /\ exitCode = 1


\* ------------------------------------------------------------------- gc
GcTerminated == Terminated /\ inv.sub = "gc"
ChangeBranchesBefore == {b \in inv.pre.branches : IsChangeRef(b)}
GcDeleted == ChangeBranchesBefore \ repo.branches
GcReported == {loc.unmerged[i] : i \in 1..Len(loc.unmerged)}
GcAttemptsEachOnce ==
    /\ Len(log) = Cardinality(ChangeBranchesBefore)
    /\ \A i \in 1..Len(log) : log[i].cmd = "branch-d"
    /\ \A b \in ChangeBranchesBefore : Cardinality({i \in 1..Len(log) : log[i].arg = b}) = 1
GcPartition ==
    /\ GcDeleted \cup GcReported = ChangeBranchesBefore
    /\ GcDeleted \cap GcReported = {}
    /\ Len(loc.unmerged) = Cardinality(GcReported)
    /\ GcReported = {log[i].arg : i \in IssuedFailed("branch-d")}
    /\ GcReported \subseteq repo.branches
    /\ repo.branches \cup GcDeleted = inv.pre.branches

\* C11 (as claimed): gc attempts a safe delete on every change branch exactly
\* once; afterwards every change branch that was fully merged is deleted,
\* every refused branch still exists and is reported, and the deleted and
\* the reported branches partition the change branches.
C11_GcDeletesEveryMerged ==
    GcTerminated =>
        /\ GcAttemptsEachOnce
        /\ GcPartition
        /\ \A b \in ChangeBranchesBefore : FullyMerged(inv.pre, b) => b \notin repo.branches

\* What gc does guarantee: the branches deleted are the change branches
\* fully merged into HEAD other than the checked-out one, which git branch -d
\* refuses to delete and which is therefore reported as unmerged.
GcDeletesMergedNotCurrent ==
    GcTerminated =>
        /\ GcAttemptsEachOnce
        /\ GcPartition
        /\ \A b \in ChangeBranchesBefore :
              b \notin repo.branches <=> (FullyMerged(inv.pre, b) /\ b # inv.pre.current)


\* ======================================================= pure functions
\* The functions below read nothing but their arguments.  Each is run from
\* every argument in a bounded set: the argument sits in loc, one step
\* applies the function and stores what it returned, and the variables of
\* the lifecycle keep their initial value.
SeqsUpTo(S, n) == UNION {[1..k -> S] : k \in 0..n}
LifecycleAtRest ==
    /\ repo = InitRepo(MsgNoId, FALSE)
    /\ gerrit = {}
    /\ inv = NoInvocation
    /\ log = <<>>
    /\ exitCode = 0
    /\ crashed = FALSE
    /\ runs = 0
    /\ clock = 0
LifecycleUntouched == UNCHANGED <<repo, gerrit, inv, log, exitCode, crashed, runs, clock>>

\* ------------------------------------------- get_change_id_from_branch
CHANGE == <<"c","h","a","n","g","e">>
BranchPrefixes == {<<>>, CHANGE, CHANGE_DASH, TMP_CHANGE_DASH}
BranchNames ==
    {p \o s : p \in BranchPrefixes, s \in SeqsUpTo({"I", "a", "-"}, MaxSuffixLen)}

InitBranch ==
    /\ LifecycleAtRest
    /\ pc = "branch_in"
    /\ \E b \in BranchNames : loc = [branch |-> b, id |-> None]

ApplyGetChangeIdFromBranch ==
    /\ pc = "branch_in"
    /\ pc' = "branch_out"
    /\ loc' = [loc EXCEPT !.id = GetChangeIdFromBranch(loc.branch)]
    /\ LifecycleUntouched

SpecBranch == InitBranch /\ [][ApplyGetChangeIdFromBranch]_vars

\* C12 (as claimed): for a branch name change-<id>, <id> a Change-Id (it
\* begins with I), get_change_id_from_branch returns exactly <id>; for every
\* other name it returns None; it never raises.
C12_BranchIdExact ==
    pc = "branch_out" =>
        loc.id = IF StartsWith(loc.branch, CHANGE_I)
                 THEN SubSeq(loc.branch, Len(CHANGE_DASH) + 1, Len(loc.branch))
                 ELSE None


\* C13 (as claimed): once create has renamed the temp branch to change-<id>,
\* <id> the Change-Id it read from HEAD, get_branch followed by
\* get_change_id_from_branch gives <id> back.
C13_RenameRoundTrip ==
    (inv.sub = "create" /\ pc = "c_push" /\ IssuedOk("branch-m") # {}) =>
        GetChangeIdFromBranch(GetBranch(repo)) = loc.change_id


\* --------------------------------------------------- build_push_command
\* The literals of the format strings are kept as single elements of the
\* command; the flag values are spliced in character by character.
RECURSIVE Join(_, _)
Join(parts, sep) ==
    IF parts = <<>> THEN <<>>
    ELSE IF Len(parts) = 1 THEN parts[1]
    ELSE parts[1] \o sep \o Join(Tail(parts), sep)

\* one flag per entry of the list, blank or not
RECURSIVE FlagArgsUnfiltered(_, _)
FlagArgsUnfiltered(flag, entries) ==
    IF entries = <<>> THEN <<>>
    ELSE << <<flag>> \o Head(entries) >> \o FlagArgsUnfiltered(flag, Tail(entries))

\* lines 166-171: one '<flag><entry>' per entry that is not blank
RECURSIVE FlagArgs(_, _)
FlagArgs(flag, entries) ==
    IF entries = <<>> THEN <<>>
    ELSE (IF Head(entries) # <<>> THEN << <<flag>> \o Head(entries) >> ELSE <<>>)
            \o FlagArgs(flag, Tail(entries))

REVIEWER_FLAG == "--reviewer="
CC_FLAG == "--cc="

\* mutant: the lists go into the command as they are
ReceivePackArgsUnfiltered(reviewers, cc) ==
    FlagArgsUnfiltered(REVIEWER_FLAG, reviewers) \o FlagArgsUnfiltered(CC_FLAG, cc)

\* lines 165-171
ReceivePackArgs(reviewers, cc) ==
    FlagArgs(REVIEWER_FLAG, reviewers) \o FlagArgs(CC_FLAG, cc)
RECEIVE_PACK == " --receive-pack=\"git receive-pack "
QUOTE == "\""

BuildPushCommand(remote, reviewers, cc, branch, topic, fakePush) ==
    LET receive_pack_args == ReceivePackArgs(reviewers, cc)
        c0 == <<"git push ">> \o remote
        c1 == IF receive_pack_args # <<>>
              THEN c0 \o <<RECEIVE_PACK>> \o Join(receive_pack_args, <<" ">>) \o <<QUOTE>>
              ELSE c0
        c2 == c1 \o <<" HEAD:refs/for/">> \o branch
        c3 == IF topic \notin {None, <<>>} THEN c2 \o <<"/">> \o topic ELSE c2
    IN  IF fakePush THEN <<"echo ">> \o c3 ELSE c3

\* what the flags can hold: a trailing or doubled comma leaves a blank entry
Entries == {<<>>, <<"a">>, <<"b">>}
PushInputs ==
    [remote : {<<"o">>, <<"u">>}, reviewers : SeqsUpTo(Entries, MaxEntries),
     cc : SeqsUpTo(Entries, MaxEntries), branch : {MASTER, <<"d">>},
     topic : {None, <<>>, <<"t">>}, fakePush : BOOLEAN]

InitPush ==
    /\ LifecycleAtRest
    /\ pc = "push_in"
    /\ \E i \in PushInputs : loc = [in |-> i, command |-> <<>>]

ApplyBuildPushCommand ==
    /\ pc = "push_in"
    /\ pc' = "push_out"
    /\ loc' = [loc EXCEPT !.command =
                  BuildPushCommand(loc.in.remote, loc.in.reviewers, loc.in.cc,
                                   loc.in.branch, loc.in.topic, loc.in.fakePush)]
    /\ LifecycleUntouched

SpecPush == InitPush /\ [][ApplyBuildPushCommand]_vars

Count(s, x) == Cardinality({i \in 1..Len(s) : s[i] = x})
NonBlank(entries) == {i \in 1..Len(entries) : entries[i] # <<>>}

SetOf(seq) == {seq[i] : i \in 1..Len(seq)}
Dir(k) == <<"r">> \o [i \in 1..k |-> "a"]
Dirs == {Dir(k) : k \in 0..MaxDepth}
RepoRoot == Dir(0)
ChangedFile(k) == [i \in 1..k |-> "a"] \o <<"f">>
ChangedFiles == {ChangedFile(k) : k \in 0..MaxDepth}

\* the lines of an OWNERS file as iterating the open file yields them
LineX == <<"x", NL>>
LineY == <<" ", "y", NL>>
LineBlank == <<NL>>
NoOwnersFile == [isfile |-> FALSE, lines |-> <<>>]
OwnersFiles ==
    {NoOwnersFile} \cup
    {[isfile |-> TRUE, lines |-> l] :
        l \in {<<>>, <<LineBlank>>, <<LineX>>, <<LineY, LineX>>, <<LineX, LineBlank>>}}

\* os.path.abspath, os.path.dirname, os.listdir
Abspath(cwd, path) == cwd \o path
Dirname(path) == SubSeq(path, 1, Len(path) - 1)
DirExists(d) == d \in Dirs

\* get_owners_for_dir: [raised, owners]; os.listdir raises OSError on a
\* directory that does not exist
RECURSIVE GetOwnersForDir(_, _)
GetOwnersForDir(fs, dir_path) ==
    IF ~DirExists(dir_path) THEN [raised |-> TRUE, owners |-> <<>>]
    ELSE IF fs[dir_path].isfile
    THEN [raised |-> FALSE,
          owners |-> [i \in 1..Len(fs[dir_path].lines) |-> Strip(fs[dir_path].lines[i])]]
    ELSE IF dir_path = RepoRoot THEN [raised |-> FALSE, owners |-> <<>>]
    ELSE GetOwnersForDir(fs, Dirname(dir_path))

\* get_directories_with_changes
GetDirectoriesWithChanges(cwd, files) == {Dirname(Abspath(cwd, path)) : path \in files}

OwnersInputs ==
    [fs : [Dirs -> OwnersFiles], cwd : Dirs, files : SUBSET ChangedFiles \ {{}}]

InitOwners ==
    /\ LifecycleAtRest
    /\ pc = "owners_in"
    /\ \E i \in OwnersInputs :
          loc = [in |-> i, todo |-> {}, owners |-> {}, raised |-> FALSE]

\* line 51: the loop starts over list(set(...)), a list in no fixed order
OwnersGetDirectories ==
    /\ pc = "owners_in"
    /\ pc' = "owners_loop"
    /\ loc' = [loc EXCEPT !.todo = GetDirectoriesWithChanges(loc.in.cwd, loc.in.files)]
    /\ LifecycleUntouched

\* mutant: the owners of a directory replace those found so far
OwnersVisitLastWins ==
    /\ pc = "owners_loop"
    /\ \E directory \in loc.todo :
          LET r == GetOwnersForDir(loc.in.fs, directory) IN
          IF r.raised
          THEN pc' = "owners_out" /\ loc' = [loc EXCEPT !.raised = TRUE]
          ELSE /\ pc' = "owners_loop"
               /\ loc' = [loc EXCEPT !.todo = @ \ {directory}, !.owners = SetOf(r.owners)]
    /\ LifecycleUntouched

\* line 52: owners.update(get_owners_for_dir(directory))
OwnersVisit ==
    /\ pc = "owners_loop"
    /\ \E directory \in loc.todo :
          LET r == GetOwnersForDir(loc.in.fs, directory) IN
          IF r.raised
          THEN pc' = "owners_out" /\ loc' = [loc EXCEPT !.raised = TRUE]
          ELSE /\ pc' = "owners_loop"
               /\ loc' = [loc EXCEPT !.todo = @ \ {directory},
                                     !.owners = @ \cup SetOf(r.owners)]
    /\ LifecycleUntouched

\* line 53: return list(owners)
OwnersReturn ==
    /\ pc = "owners_loop"
    /\ loc.todo = {}
    /\ pc' = "owners_out"
    /\ UNCHANGED loc
    /\ LifecycleUntouched

NextOwners == OwnersGetDirectories \/ OwnersVisit \/ OwnersReturn
SpecOwners == InitOwners /\ [][NextOwners]_vars


\* The nearest directory at or above d, up to the repository root, that
\* holds an OWNERS file.
RECURSIVE NearestOwnersDir(_, _)
NearestOwnersDir(fs, d) ==
    IF fs[d].isfile THEN [found |-> TRUE, dir |-> d]
    ELSE IF d = RepoRoot THEN [found |-> FALSE, dir |-> d]
    ELSE NearestOwnersDir(fs, Dirname(d))
\* the owner identifiers an OWNERS file lists, one per non-blank line
IdentifiersOf(file) ==
    {Strip(file.lines[i]) : i \in {j \in 1..Len(file.lines) : Strip(file.lines[j]) # <<>>}}
OwnersOfNearest(fs, d) ==
    IF NearestOwnersDir(fs, d).found
    THEN IdentifiersOf(fs[NearestOwnersDir(fs, d).dir]) ELSE {}
OwnersResolved == pc = "owners_out" /\ ~loc.raised
VisitedDirs == GetDirectoriesWithChanges(loc.in.cwd, loc.in.files)

\* C15 (as claimed): when the first directory at or above the resolved
\* directory that holds an owners file has no non-blank line in it, the
\* owner set of that path is empty (and holds no owner of a parent).
C15_EmptyOwnersFileIsEmptySet ==
    (OwnersResolved /\ Cardinality(VisitedDirs) = 1) =>
        \A d \in VisitedDirs :
            LET n == NearestOwnersDir(loc.in.fs, d) IN
            (n.found /\ IdentifiersOf(loc.in.fs[n.dir]) = {}) => loc.owners = {}

\* What the walk does guarantee: it stops at the first owners file, whose
\* stripped lines (the blank ones too) are the owners of the path.
OwnersWalkStopsAtFirstFile ==
    (OwnersResolved /\ Cardinality(VisitedDirs) = 1) =>
        \A d \in VisitedDirs :
            LET n == NearestOwnersDir(loc.in.fs, d) IN
            /\ n.found =>
                  loc.owners \ {<<>>} = IdentifiersOf(loc.in.fs[n.dir])
            /\ ~n.found => loc.owners = {}

\* C16 (as claimed): the resolved owner set is the union, over the changed
\* files, of the identifiers listed in the owners file of the nearest
\* directory at or above the file's directory, up to the repository root.
C16_OwnersAreUnionOfNearest ==
    pc = "owners_out" =>
        /\ ~loc.raised
        /\ loc.owners =
              UNION {OwnersOfNearest(loc.in.fs, Dirname(Abspath(RepoRoot, path))) :
                        path \in loc.in.files}

\* C17: whatever order the changed directories are visited in, resolution
\* ends the same way: it raises iff get_owners_for_dir raises on one of
\* them, and otherwise returns the union of what get_owners_for_dir gives
\* for each; no step changes the filesystem, the files or the repository.
C17_OutcomeIsOrderFree ==
    pc = "owners_out" =>
        /\ loc.raised <=> \E d \in VisitedDirs : GetOwnersForDir(loc.in.fs, d).raised
        /\ ~loc.raised =>
              loc.owners = UNION {SetOf(GetOwnersForDir(loc.in.fs, d).owners) : d \in VisitedDirs}
C17_StepReadsOnly == loc'.in = loc.in /\ repo' = repo
\* C17: in every state the outcome is the order-free one, and every step
\* leaves the filesystem, the changed files and the repository as they were.
C17_OrderIndependent == []C17_OutcomeIsOrderFree /\ [][C17_StepReadsOnly]_vars

C17_Witness ==
    /\ OwnersResolved
    /\ Cardinality(VisitedDirs) >= 2
    /\ \E d, e \in VisitedDirs :
          /\ SetOf(GetOwnersForDir(loc.in.fs, d).owners) = {<<"x">>}
          /\ SetOf(GetOwnersForDir(loc.in.fs, e).owners) = {<<"y">>, <<"x">>}
    /\ loc.owners = {<<"x">>, <<"y">>}


\* ------------------------------------------------------------------ list
ListAnswered == Terminated /\ inv.sub = "list" /\ loc.selection \notin {None, EOF}
NotAValidSelection == [msg |-> "not-a-valid-selection", branch |-> None]

\* C18 (as claimed): at the selection prompt of list over N branches, blank
\* input checks nothing out and prints nothing; non-numeric input and
\* numeric input outside 1..N check nothing out and report an invalid
\* selection; the process ends normally in all these cases.
C18_InvalidSelectionRejected ==
    ListAnswered =>
        LET selection == loc.selection
            inRange == IsDigit(selection) /\ ParseInt(selection) \in 1..Len(loc.todo)
        IN  /\ selection = <<>> =>
                  /\ log = <<>> /\ repo = inv.pre /\ loc.printed = <<>>
                  /\ exitCode = 0 /\ ~crashed
            /\ (selection # <<>> /\ ~inRange) =>
                  /\ log = <<>> /\ repo = inv.pre /\ loc.printed = <<NotAValidSelection>>
                  /\ exitCode = 0 /\ ~crashed

\* ---------------------------------------------------------------- rebase
RebaseTerminated == Terminated /\ inv.sub = "rebase"
RebaseFailedFor(branch) == [msg |-> "rebase-failed", branch |-> branch]

\* C19: when the pull --rebase on the target branch, or the rebase of the
\* change branch onto it, exits with c # 0, that command is the last one
\* issued, the branch to resolve has been printed, the process exits with c
\* and the checked-out branch is the target branch (first step) or the
\* change branch (second step).
C19_RebaseFailureStops ==
    RebaseTerminated =>
        /\ \A i \in IssuedFailed("pull-rebase") :
              /\ i = Len(log)
              /\ exitCode = log[i].rc /\ ~crashed
              /\ loc.target = loc.change.branch
              /\ log[i].on = loc.target /\ repo.current = loc.target
              /\ loc.printed = <<RebaseFailedFor(loc.target)>>
        /\ \A i \in IssuedFailed("rebase") :
              /\ i = Len(log)
              /\ exitCode = log[i].rc /\ ~crashed
              /\ loc.original = inv.pre.current
              /\ log[i].on = loc.original /\ repo.current = loc.original
              /\ loc.printed = <<RebaseFailedFor(loc.original)>>

C19_Witness ==
    /\ RebaseTerminated
    /\ \E i \in IssuedFailed("rebase") : log[i].rc = 128
    /\ IssuedOk("pull-rebase") # {}
    /\ exitCode = 128
    /\ repo.current = ChangeBranchName(IdA)

\* ---------------------------------------------------------------- submit
\* C20: the remote submit action is issued only on a valid change branch
\* whose resolved change is open, for that change's project and the commit
\* id of HEAD; when the resolved change is not open, submit exits non-zero
\* without issuing it; when it is open, the action is issued.
C20_SubmitOnlyOpenChange ==
    inv.sub = "submit" =>
        /\ \A i \in Issued("submit") :
              /\ CheckForChangeBranch(inv.pre).out = "return"
              /\ loc.change.id = CheckForChangeBranch(inv.pre).id
              /\ loc.change.open
              /\ log[i].arg = loc.change.project \o <<" ">> \o Sha(HeadCommit(inv.pre)) \o <<NL>>
        /\ (loc.change # NoChange /\ ~loc.change.open) =>
              /\ Issued("submit") = {}
              /\ pc \in {"s_open", "done"}
              /\ Terminated => exitCode # 0
        /\ (loc.change # NoChange /\ loc.change.open /\ Terminated) =>
              Cardinality(Issued("submit")) = 1

C20_Witness ==
    /\ Terminated /\ inv.sub = "submit"
    /\ IssuedOk("submit") # {}
    /\ loc.change.project = PROJECT
    /\ \E g \in gerrit : g.id = loc.change.id /\ ~g.open


\* ------------------------------------------------- preconditions of create
\* a change branch: named change-<id>, <id> beginning with I
IsChangeBranch(b) == StartsWith(b, CHANGE_I)
NoStagedChanges == ~inv.flags.useHead /\ ~inv.pre.staged
NotChainingOnChangeBranch == ~inv.flags.chain /\ IsChangeBranch(inv.pre.current)
ChainingOffChangeBranch == inv.flags.chain /\ ~IsChangeBranch(inv.pre.current)

\* C21: outside dry-run mode, create ends with a non-zero status, having issued no command and
\* with the repository as it found it, when (a) nothing is staged and
\* --use-head-commit was not given, (b) --chain was not given and the current
\* branch is a change branch, (c) --chain was given and the current branch
\* is not a change branch.
C21_PreconditionFailureExits ==
    (inv.sub = "create" /\ ~DryRun /\ pc # "c_staged"
        /\ (NoStagedChanges \/ NotChainingOnChangeBranch \/ ChainingOffChangeBranch)) =>
            /\ pc \in {"c_merge", "c_branches", "done"}
            /\ log = <<>>
            /\ repo = inv.pre
            /\ Terminated => exitCode # 0 /\ ~crashed

C21_Witness ==
    /\ CreateTerminated /\ ~DryRun
    /\ ~NoStagedChanges
    /\ NotChainingOnChangeBranch
    /\ exitCode = 1


\* ------------------------------------------- unmerged commits before create
Confirmed == StartsWith(Lower(loc.user_input), <<"y">>)
AboutToCreateTmpBranch == inv.sub = "create" /\ pc = "c_checkout_b"
AbortedUnconfirmed ==
    /\ pc = "done"
    /\ exitCode = 1
    /\ ~crashed
    /\ log = <<>>
    /\ repo = inv.pre

\* C22 as stated: in create without --chain, when the original branch is
\* ahead of its remote counterpart, the temporary branch is created only
\* after an answer beginning with y or Y, and any other answer ends create
\* with status 1 and nothing created.
C22_AheadNeedsConfirmation ==
    (inv.sub = "create" /\ ~inv.flags.chain /\ loc.ahead) =>
        /\ AboutToCreateTmpBranch => Confirmed
        /\ (loc.user_input # None /\ ~Confirmed) => AbortedUnconfirmed

\* C22, amended: the same, for create without --chain and without
\* --merge-commit, outside dry-run mode.
C22_AheadNeedsConfirmationUnlessMerge ==
    (inv.sub = "create" /\ ~inv.flags.chain /\ ~inv.flags.mergeCommit /\ ~DryRun
        /\ loc.ahead) =>
        /\ pc \in {"c_unmerged", "c_checkout_b", "done"}
        /\ AboutToCreateTmpBranch => Confirmed
        /\ (loc.user_input # None /\ ~Confirmed) => AbortedUnconfirmed

C22_Witness ==
    /\ inv.sub = "create" /\ ~inv.flags.chain /\ ~inv.flags.mergeCommit /\ ~DryRun
    /\ loc.ahead
    /\ loc.user_input = <<"n">>
    /\ AbortedUnconfirmed

C22_WitnessConfirmed ==
    /\ AboutToCreateTmpBranch /\ ~inv.flags.chain /\ ~inv.flags.mergeCommit
    /\ loc.ahead
    /\ loc.user_input = <<"Y", "e", "s">>


\* --------------------------------------------------------- update: amending
\* update got past the checks of lines 278-281: a change branch, one change
\* record, the change open
UpdatingOpenChange ==
    /\ inv.sub = "update"
    /\ pc \in {"u_push", "done"}
    /\ loc.change # NoChange
    /\ loc.change.open
\* update_change, line 287: what makes update amend
AmendRequested == inv.flags.amendFlags \/ inv.pre.staged

\* C23: in update on a change branch whose change is open, git commit
\* --amend is issued (once) exactly when changes are staged or a reviewers,
\* cc or bug flag was given; a successful amend replaces HEAD and empties
\* the index; every push comes after it, and pushes to the branch of the
\* Gerrit change record whose id is the one of the change branch.
C23_UpdateAmendsThenPushes ==
    UpdatingOpenChange =>
        /\ Issued("amend") # {} <=> AmendRequested
        /\ Cardinality(Issued("amend")) <= 1
        /\ IssuedOk("amend") # {} =>
              /\ ~repo.staged
              /\ inv.pre.staged => repo.tip[repo.current] # inv.pre.tip[repo.current]
        /\ ~AmendRequested => repo = inv.pre
        /\ \A i \in Issued("push") :
              /\ \A j \in Issued("amend") : j < i /\ j \in IssuedOk("amend")
              /\ log[i].arg = loc.change.branch
              /\ log[i].on = inv.pre.current
              /\ loc.change.id = GetChangeIdFromBranch(inv.pre.current)
              /\ \E g \in gerrit : g.id = loc.change.id /\ g.branch = log[i].arg

C23_Witness ==
    /\ UpdatingOpenChange
    /\ Terminated
    /\ inv.flags.amendFlags /\ ~inv.pre.staged
    /\ IssuedOk("amend") # {}
    /\ IssuedOk("push") # {}
    /\ loc.change.branch # repo.current


\* ----------------------------------------------------------------- no retry
\* the commands that reach the remote or the Gerrit server
RemoteCommands == {"push", "query", "submit"}
NotReissuedAfterFailure(cmd) ==
    \A i \in IssuedFailed(cmd) : \A j \in Issued(cmd) : j <= i

\* C24: within one invocation the push is issued at most once, the Gerrit
\* submit at most once, and no push, query or submit follows a failed one.
C24_NoRetry ==
    /\ Cardinality(Issued("push")) <= 1
    /\ Cardinality(Issued("submit")) <= 1
    /\ \A cmd \in RemoteCommands : NotReissuedAfterFailure(cmd)

C24_Witness ==
    /\ Terminated
    /\ inv.sub = "update"
    /\ IssuedFailed("push") = {Len(log)}
    /\ IssuedOk("query") # {}
    /\ exitCode = log[Len(log)].rc


\* ------------------------------------------------------------------ dry run
\* a dry run of create that went through every step to the last checkout
DryCreateWentThrough ==
    /\ CreateTerminated
    /\ DryRun
    /\ exitCode = 0 /\ ~crashed
    /\ loc.tmp # None /\ loc.new = loc.tmp
    /\ loc.original = FAKE_BRANCH /\ loc.target = FAKE_BRANCH

\* C25: in dry-run mode no command is launched (the log of executed
\* commands stays empty), and no step of any subcommand changes the local
\* repository (branches, tips, checked-out branch, index) or the changes
\* held by the Gerrit server.
C25_DryRunState == DryRun => (log = <<>> /\ repo = inv.pre /\ ~crashed)
C25_DryRunStep == DryRun => (repo' = repo /\ gerrit' = gerrit)
C25_DryRunChangesNothing == []C25_DryRunState /\ [][C25_DryRunStep]_vars

C25_Witness ==
    /\ DryCreateWentThrough
    /\ inv.pre.staged
    /\ ~inv.flags.useHead


DryGcWentThrough ==
    /\ GcTerminated /\ DryRun
    /\ exitCode = 0 /\ loc.deleted /\ loc.unmerged = <<>>
    /\ ChangeBranchesBefore # {}
DryListCheckedOut ==
    /\ Terminated /\ inv.sub = "list" /\ DryRun
    /\ loc.selection = <<"1">> /\ exitCode = 0
    /\ repo.current = MASTER
DryUpdateRefused ==
    /\ Terminated /\ inv.sub = "update" /\ DryRun
    /\ exitCode = 1
    /\ CheckForChangeBranch(inv.pre).out = "return"


\* --------------------------------------------------------------- get_branch
REFS == <<"r","e","f","s">>
HEADS == <<"h","e","a","d","s">>
RefSegments == {REFS, HEADS, MASTER, <<>>}
\* what HEAD can be: a symbolic ref of one to MaxSegments segments, or no
\* symbolic ref at all
RefInputs ==
    [dry : BOOLEAN, detached : {FALSE},
     segments : SeqsUpTo(RefSegments, MaxSegments) \ {<<>>}]
        \cup [dry : BOOLEAN, detached : {TRUE}, segments : {<<>>}]
\* git symbolic-ref HEAD prints the ref and a newline, or fails
SymbolicRefOutput(in) ==
    IF in.detached THEN CalledProcessError ELSE Join(in.segments, <<"/">>) \o <<NL>>

InitRef ==
    /\ LifecycleAtRest
    /\ pc = "ref_in"
    /\ \E in \in RefInputs : loc = [in |-> in, out |-> None]

ApplyGetBranch ==
    /\ pc = "ref_in"
    /\ pc' = "ref_out"
    /\ loc' = [loc EXCEPT !.out = GetBranchFrom(loc.in.dry, SymbolicRefOutput(loc.in))]
    /\ LifecycleUntouched

SpecRef == InitRef /\ [][ApplyGetBranch]_vars

\* C26: outside dry-run mode get_branch returns the third segment of the
\* symbolic ref of HEAD when the ref has exactly three slash-separated
\* segments, and raises GitError for every other ref and for a detached
\* HEAD.
C26_ThirdSegmentOrGitError ==
    (pc = "ref_out" /\ ~loc.in.dry) =>
        loc.out = IF ~loc.in.detached /\ Len(loc.in.segments) = 3
                  THEN loc.in.segments[3]
                  ELSE GitError

C26_Witness ==
    /\ pc = "ref_out" /\ ~loc.in.dry
    /\ loc.in.segments = <<REFS, HEADS, MASTER, MASTER>>
    /\ loc.out = GitError

C26_WitnessDetached ==
    /\ pc = "ref_out" /\ ~loc.in.dry
    /\ loc.in.detached
    /\ loc.out = GitError

C26_WitnessBranch ==
    /\ pc = "ref_out" /\ ~loc.in.dry
    /\ loc.in.segments = <<REFS, HEADS, MASTER>>
    /\ loc.out = MASTER


\* ------------------------------------------------------------ search_gerrit
\* A JSON object is a sequence of <<key, value>> pairs; on the wire it is one
\* line of tokens { k : v , k : v }.
STATS == "stats"
TYPE == "type"
StatsRecord == << <<TYPE, STATS>>, <<"rowCount", "1">> >>
ChangeRecordA == << <<"id", "Ia">>, <<"branch", "master">>, <<"open", "true">> >>
ChangeRecordB == << <<"id", "Ib">>, <<"branch", "dev">> >>
ErrorRecord == << <<TYPE, "error">>, <<"message", "m">> >>
BlankLine == [blank |-> TRUE, pairs |-> <<>>]
ResponseLines ==
    {BlankLine} \cup
    {[blank |-> FALSE, pairs |-> p] :
        p \in {StatsRecord, ChangeRecordA, ChangeRecordB, ErrorRecord}}

\* the JSON text Gerrit sends for an object
Dumps(pairs) ==
    <<"{">> \o Join([i \in 1..Len(pairs) |-> <<pairs[i][1], ":", pairs[i][2]>>], <<",">>)
            \o <<"}">>
LineText(line) == IF line.blank THEN <<>> ELSE Dumps(line.pairs)
\* the response: every line ends with a newline
ResponseText(lines) ==
    Join([i \in 1..Len(lines) |-> LineText(lines[i]) \o <<NL>>], <<>>)

\* simplejson.loads on the text of one object: the dictionary, as the set
\* of its <<key, value>> items
Loads(text) ==
    LET inner == SubSeq(text, 2, Len(text) - 1)
        items == IF inner = <<>> THEN <<>> ELSE Split(inner, ",")
    IN  {<<items[i][1], items[i][3]>> : i \in 1..Len(items)}

\* mutant: any record that has a type field is taken for the stats
IsStatsResultAnyType(result) == \E item \in result : item[1] = TYPE

\* line 287: 'type' in result and result['type'] == 'stats'
IsStatsResult(result) == \E item \in result : item[1] = TYPE /\ item[2] = STATS

\* lines 283-290: the loop over response.split('\n')
RECURSIVE ParseResponseLines(_, _, _)
ParseResponseLines(lines, results, stats) ==
    IF lines = <<>> THEN [results |-> results, stats |-> stats]
    ELSE IF Head(lines) = <<>> THEN ParseResponseLines(Tail(lines), results, stats)
    ELSE LET result == Loads(Head(lines)) IN
         IF IsStatsResult(result)
         THEN ParseResponseLines(Tail(lines), results, result)
         ELSE ParseResponseLines(Tail(lines), Append(results, result), stats)

\* search_gerrit on the response of the gerrit query command
SearchGerrit(response) == ParseResponseLines(Split(response, NL), <<>>, None)

InitGerrit ==
    /\ LifecycleAtRest
    /\ pc = "gerrit_in"
    /\ \E lines \in SeqsUpTo(ResponseLines, MaxLines) :
          loc = [lines |-> lines, out |-> [results |-> <<>>, stats |-> None]]

ApplySearchGerrit ==
    /\ pc = "gerrit_in"
    /\ pc' = "gerrit_out"
    /\ loc' = [loc EXCEPT !.out = SearchGerrit(ResponseText(loc.lines))]
    /\ LifecycleUntouched

SpecGerrit == InitGerrit /\ [][ApplySearchGerrit]_vars

\* the objects Gerrit sent, by what they are
ItemsOf(pairs) == {pairs[i] : i \in 1..Len(pairs)}
SentStats(line) == ~line.blank /\ <<TYPE, STATS>> \in ItemsOf(line.pairs)
SentResult(line) == ~line.blank /\ <<TYPE, STATS>> \notin ItemsOf(line.pairs)
SentResults == SelectSeq(loc.lines, SentResult)
SentStatsLines == SelectSeq(loc.lines, SentStats)

\* C27: search_gerrit skips the empty lines; the results are the objects
\* whose type is not stats, each once and in the order they were sent; the
\* stats value is the object whose type is stats (the last one sent, None
\* when there is none), and it is not among the results.
C27_ResultsInArrivalOrder ==
    pc = "gerrit_out" =>
        /\ Len(loc.out.results) = Len(SentResults)
        /\ \A i \in 1..Len(SentResults) :
              loc.out.results[i] = ItemsOf(SentResults[i].pairs)
        /\ loc.out.stats = IF SentStatsLines = <<>> THEN None
                           ELSE ItemsOf(SentStatsLines[Len(SentStatsLines)].pairs)
        /\ \A i \in 1..Len(loc.out.results) : loc.out.results[i] # ItemsOf(StatsRecord)

C27_Witness ==
    /\ pc = "gerrit_out"
    /\ loc.lines = <<[blank |-> FALSE, pairs |-> ErrorRecord], BlankLine,
                     [blank |-> FALSE, pairs |-> StatsRecord]>>
    /\ loc.out.results = <<ItemsOf(ErrorRecord)>>
    /\ loc.out.stats = ItemsOf(StatsRecord)

C27_WitnessOrder ==
    /\ pc = "gerrit_out"
    /\ loc.lines = <<[blank |-> FALSE, pairs |-> ChangeRecordB],
                     [blank |-> FALSE, pairs |-> ChangeRecordA],
                     [blank |-> FALSE, pairs |-> StatsRecord]>>
    /\ loc.out.results = <<ItemsOf(ChangeRecordB), ItemsOf(ChangeRecordA)>>


\* ---------------------------------------------------------------- get_change
\* the invocation has asked Gerrit for a change and got an answer
QueryAnswered == IssuedOk("query") # {}
\* the change id the query was for
QueriedId == log[CHOOSE i \in IssuedOk("query") : TRUE].arg


\* The commands that work on an existing change, started in a repository as
\* create --switch leaves it (on change-<IdA>, HEAD carrying IdA), against a
\* server shared with others: it may hold no record of the change, one, or
\* one more on another branch.
DEV == <<"d","e","v">>
ChangeRepo(st) ==
    LET r0 == InitRepo(MsgNoId, TRUE)
        r1 == GitCheckoutNew(r0, TmpBranchName(1)).repo
        r2 == GitCommit(r1, MsgWith(IdA), 1).repo
        r3 == GitBranchMove(r2, TmpBranchName(1), ChangeBranchName(IdA)).repo
    IN  [r3 EXCEPT !.staged = st]
ServerRecords ==
    [id : {IdA}, branch : {MASTER}, open : BOOLEAN, project : {PROJECT}]
        \cup [id : {IdA}, branch : {DEV}, open : {TRUE}, project : {PROJECT}]
\* at most one record per change id and branch
ServerStates ==
    {s \in SUBSET ServerRecords :
        \A g, h \in s : (g.id = h.id /\ g.branch = h.branch) => g = h}

InitServer ==
    /\ \E st \in BOOLEAN : repo = ChangeRepo(st)
    /\ gerrit \in ServerStates
    /\ pc = "idle"
    /\ inv = NoInvocation
    /\ loc = NoLocals
    /\ log = <<>>
    /\ exitCode = 0
    /\ crashed = FALSE
    /\ runs = 0
    /\ clock = 1

StartOnChange == StartOneOf({"create", "update", "rebase", "submit"})
NextServer == StartOnChange \/ Return \/ Create \/ Update \/ Rebase \/ Submit
SpecServer == InitServer /\ [][NextServer]_vars

OnChangeCommand == inv.sub \in {"create", "update", "rebase", "submit"}
QueryResults == Query(QueriedId)

\* C28: get_change hands back a change record only when the query gave
\* exactly one result, and that record is the result; with no result or
\* several the process exits with status 1 (exit_error), the query is the
\* last command of the invocation and the repository is untouched.
C28_ExactlyOneResult ==
    (OnChangeCommand /\ QueryAnswered) =>
        /\ loc.change # NoChange =>
              /\ Cardinality(QueryResults) = 1
              /\ \E g \in QueryResults : g.id = loc.change.id /\ g.branch = loc.change.branch
        /\ (inv.sub = "create" /\ loc.target # None) =>
              /\ Cardinality(QueryResults) = 1
              /\ \E g \in QueryResults : g.branch = loc.target
        /\ Cardinality(QueryResults) # 1 =>
              /\ pc = "done" /\ exitCode = 1 /\ ~crashed
              /\ Len(log) = 1
              /\ loc.change = NoChange
              /\ repo = inv.pre

C28_Witness ==
    /\ Terminated /\ inv.sub = "submit"
    /\ QueryAnswered
    /\ Cardinality(QueryResults) = 2
    /\ exitCode = 1

C28_WitnessNone ==
    /\ Terminated /\ inv.sub = "update"
    /\ QueryAnswered
    /\ QueryResults = {}
    /\ exitCode = 1

C28_WitnessOne ==
    /\ Terminated /\ inv.sub = "rebase"
    /\ QueryAnswered
    /\ Cardinality(QueryResults) = 1
    /\ loc.change.branch = MASTER
    /\ IssuedOk("rebase") # {}
    /\ exitCode = 0


C28_WitnessChain ==
    /\ CreateTerminated /\ inv.flags.chain
    /\ QueryAnswered
    /\ Cardinality(QueryResults) = 2
    /\ exitCode = 1


\* ------------------------------------------------------------ the owners walk
\* the directory a changed file is in: git diff-tree prints paths relative
\* to the repository root
DirectoryOf(path) == Dirname(Abspath(RepoRoot, path))
NoOwnersFileAbove(fs, path) == ~NearestOwnersDir(fs, DirectoryOf(path)).found

\* C29 (as claimed): for every changed file the walk ends, at a directory
\* with an OWNERS file or at the repository root, without raising; and when
\* no changed file has an OWNERS file at or above its directory, no owner is
\* returned.
C29_WalkEndsAtOwnersOrRoot ==
    pc = "owners_out" =>
        /\ ~loc.raised
        /\ (\A path \in loc.in.files : NoOwnersFileAbove(loc.in.fs, path)) =>
              loc.owners = {}

\* What holds when git-change is run from the repository root: the walk of
\* every changed file ends without raising, and files without an OWNERS
\* file at or above them bring no owner.
OwnersWalkEndsFromRoot ==
    (pc = "owners_out" /\ loc.in.cwd = RepoRoot) =>
        /\ ~loc.raised
        /\ (\A path \in loc.in.files : NoOwnersFileAbove(loc.in.fs, path)) =>
              loc.owners = {}


\* ------------------------------------------------- create without Change-Id
\* create has gone through lines 469-477: new_branch is set
NewBranchDecided == inv.sub = "create" /\ ~DryRun /\ loc.new # None

\* C30: when no Change-Id was read from HEAD, create prints the warning,
\* issues no rename, and goes on to push from the temp branch, which keeps
\* its name; when a Change-Id <id> was read, it issues git branch -m exactly
\* once, from the temp branch to change-<id>, prints no warning, and after
\* the rename the checked-out branch is change-<id>.
C30_WarnOrRenameOnce ==
    NewBranchDecided =>
        IF loc.change_id = None
        THEN /\ loc.printed = <<NoChangeIdWarning(loc.tmp)>>
             /\ Issued("branch-m") = {}
             /\ loc.new = loc.tmp
             /\ pc = "c_push" => (loc.tmp \in repo.branches /\ repo.current = loc.tmp)
             /\ pc # "c_push" =>
                  /\ Cardinality(Issued("push")) = 1
                  /\ \A i \in Issued("push") : log[i].on = loc.tmp
        ELSE /\ loc.printed = <<>>
             /\ Cardinality(Issued("branch-m")) = 1
             /\ \A j \in Issued("branch-m") :
                  /\ log[j].arg = ChangeBranchName(loc.change_id)
                  /\ log[j].on = loc.tmp
             /\ loc.new = ChangeBranchName(loc.change_id)
             /\ (IssuedOk("branch-m") # {} /\ pc = "c_push") =>
                  /\ loc.new \in repo.branches
                  /\ loc.tmp \notin repo.branches
                  /\ repo.current = loc.new

C30_Witness ==
    /\ CreateTerminated /\ ~DryRun
    /\ loc.change_id = None
    /\ loc.printed = <<NoChangeIdWarning(loc.tmp)>>
    /\ IssuedOk("push") # {}
    /\ loc.tmp \in repo.branches
    /\ exitCode = 0

C30_WitnessRenamed ==
    /\ CreateTerminated /\ ~DryRun
    /\ loc.change_id = IdHyphen
    /\ Cardinality(IssuedOk("branch-m")) = 1
    /\ IssuedOk("push") # {}
    /\ exitCode = 0


\* ------------------------------------------------ the change-branch guard
OnExistingChange == inv.sub \in {"update", "rebase", "submit"}
\* the branch checked out in r is change-<id> and its HEAD commit carries
\* the trailer Change-Id: <id>
ValidChangeBranch(r) ==
    \E id \in Ids : r.current = ChangeBranchName(id) /\ TrailerOf(r, r.current) = id
StartedOffChangeBranch == OnExistingChange /\ ~ValidChangeBranch(inv.pre)

C31_GuardState ==
    StartedOffChangeBranch =>
        /\ log = <<>>
        /\ repo = inv.pre
        /\ pc \in {"u_check", "r_check", "s_check", "done"}
        /\ Terminated => exitCode # 0
C31_GuardStep == StartedOffChangeBranch => (repo' = repo /\ gerrit' = gerrit)

\* C31: update, rebase and submit started anywhere but on a branch
\* change-<id> whose HEAD commit carries Change-Id <id> launch no command at
\* all (no query, checkout, commit, rebase, push or remote submit), end with
\* a non-zero status, and no step of theirs changes the repository or the
\* Gerrit changes.
C31_OnlyOnMatchingChangeBranch == []C31_GuardState /\ [][C31_GuardStep]_vars

\* update refused on a change branch whose HEAD carries another Change-Id
C31_Witness ==
    /\ Terminated /\ inv.sub = "update"
    /\ IsChangeBranch(inv.pre.current)
    /\ TrailerOf(inv.pre, inv.pre.current) # None
    /\ StartedOffChangeBranch
    /\ exitCode = 1 /\ ~crashed
    /\ log = <<>>

\* rebase refused off a change branch
C31_WitnessOffBranch ==
    /\ Terminated /\ inv.sub = "rebase"
    /\ ~IsChangeBranch(inv.pre.current)
    /\ exitCode = 1 /\ log = <<>>


\* ------------------------------------------- where a successful create ends
CreateSucceeded == CreateTerminated /\ exitCode = 0 /\ ~DryRun
StayRequested == inv.flags.switch \/ inv.flags.chain

\* C32: after a successful create (outside dry-run mode) the checked-out
\* branch is the new branch exactly when --switch or --chain was given, and
\* the original branch otherwise; the two are different branches.
C32_SwitchOrChainStays ==
    CreateSucceeded =>
        /\ loc.original = inv.pre.current
        /\ loc.new \in repo.branches \ inv.pre.branches
        /\ loc.original \in repo.branches
        /\ (repo.current = loc.new) <=> StayRequested
        /\ ~StayRequested => repo.current = loc.original

\* --chain alone leaves the new branch checked out
C32_Witness ==
    /\ CreateSucceeded
    /\ inv.flags.chain /\ ~inv.flags.switch
    /\ repo.current = loc.new

\* neither flag: back on the original branch, also in merge-commit mode
C32_WitnessBack ==
    /\ CreateSucceeded
    /\ ~StayRequested /\ inv.flags.mergeCommit
    /\ repo.current = loc.original

C32_WitnessMergeSwitch ==
    /\ CreateSucceeded
    /\ inv.flags.switch /\ inv.flags.mergeCommit
    /\ repo.current = loc.new


\* ------------------------------------------------- who changes the branches
BranchSetKept == repo'.branches = repo.branches
KeepsBranches == inv.sub \in {"update", "rebase", "list", "submit", "print"}

\* C33: the set of local branches changes only in steps of create and gc:
\* no step of update, rebase, list, submit or print creates, renames or
\* deletes a branch, on their failure paths included, and at every point of
\* such an invocation the branches are those it started with.
C33_BranchesAtStart == KeepsBranches => repo.branches = inv.pre.branches
C33_BranchStep ==
    /\ KeepsBranches => BranchSetKept
    /\ ~BranchSetKept => inv.sub \in {"create", "gc"}
C33_OnlyCreateAndGcChangeBranches == []C33_BranchesAtStart /\ [][C33_BranchStep]_vars

\* a rebase that failed after it had checked out the target branch
C33_Witness ==
    /\ Terminated /\ inv.sub = "rebase"
    /\ IssuedFailed("rebase") # {}
    /\ Cardinality(repo.branches) = 2
    /\ repo.branches = inv.pre.branches

\* print on a change branch, after its query
C33_WitnessPrint ==
    /\ Terminated /\ inv.sub = "print"
    /\ IssuedOk("query") # {}
    /\ loc.printed = <<[msg |-> "push-command", branch |-> MASTER]>>
    /\ repo = inv.pre

C33_WitnessUpdateFailed ==
    /\ Terminated /\ inv.sub = "update"
    /\ IssuedFailed("push") # {}
    /\ repo.branches = inv.pre.branches


\* ------------------------------------------------------- merge-commit mode
MergeCreate == inv.sub = "create" /\ inv.flags.mergeCommit
\* the tip of the branch create was started on, then and now
OriginalTipBefore == inv.pre.tip[inv.pre.current]
OriginalTipNow == repo.tip[inv.pre.current]
PastMergeChecks == pc \notin {"c_staged", "c_merge", "done"} \/ log # <<>>

\* C34: create --merge-commit goes past its checks only when nothing was
\* staged (nothing uncommitted) at its start; git reset --hard HEAD^ is
\* issued only after a push that succeeded and takes the original branch
\* to the parent of its former tip; until then, and so whenever the push
\* failed, the original branch's tip is the commit it was before create.
C34_MergeCommitResetAfterPush ==
    MergeCreate =>
        /\ PastMergeChecks => ~inv.pre.staged
        /\ (Terminated /\ inv.pre.staged) => exitCode # 0 /\ repo = inv.pre
        /\ \A i \in Issued("reset-hard") : \E j \in IssuedOk("push") : j < i
        /\ inv.pre.current \in repo.branches
        /\ IssuedOk("reset-hard") = {} => OriginalTipNow = OriginalTipBefore
        /\ IssuedOk("reset-hard") # {} =>
              OriginalTipNow = Parent(inv.pre.commits, OriginalTipBefore)

\* the push failed and was rolled back: the original branch still has its commit
C34_Witness ==
    /\ MergeCreate /\ Terminated
    /\ IssuedFailed("push") # {}
    /\ IssuedOk("branch-d") # {}
    /\ exitCode # 0
    /\ OriginalTipNow = OriginalTipBefore

\* the push succeeded and the commit was taken off the original branch
C34_WitnessReset ==
    /\ MergeCreate /\ Terminated /\ exitCode = 0
    /\ IssuedOk("reset-hard") # {}
    /\ OriginalTipNow # OriginalTipBefore

C34_WitnessPending ==
    /\ MergeCreate /\ Terminated /\ ~DryRun
    /\ inv.pre.staged /\ exitCode = 1


\* ------------------------------------------------------ blank owners lines
\* C35 (as claimed): the resolved owner set never holds the empty
\* identifier: a blank line of an owners file contributes no owner.
C35_NoEmptyOwner == OwnersResolved => <<>> \notin loc.owners


\* ------------------------------------------------------ what a rollback restores
CommitStepFailed == IssuedFailed("commit") # {} \/ IssuedInterrupted("commit") # {}
PushStepFailed == IssuedFailed("push") # {}
RepositoryRestored ==
    /\ repo.branches = inv.pre.branches
    /\ \A b \in inv.pre.branches : repo.tip[b] = inv.pre.tip[b]
    /\ repo.current = inv.pre.current
    /\ repo.staged = inv.pre.staged

\* C36 (as claimed): a create whose commit or push failed ends with the
\* branches, their tips, the checked-out branch and the staged changes it
\* started with.
C36_FailedCreateRestores ==
    (CreateTerminated /\ (CommitStepFailed \/ PushStepFailed)) => RepositoryRestored

\* What the rollbacks do restore: a failed commit always, a failed push
\* whenever the rollback's checkout went through.
FailedCreateRestoresUnlessRefused ==
    (CreateTerminated /\ (CommitStepFailed \/ PushStepFailed)) =>
        \/ RepositoryRestored
        \/ /\ PushStepFailed /\ inv.flags.useHead /\ inv.pre.staged
           /\ IssuedFailed("checkout") # {}
           /\ crashed


\* ------------------------------------------------ the checked-out branch
\* every launched delete names a branch other than the one checked out
DeletesSpareCurrent ==
    \A i \in Issued("branch-d") : log[i].rc = 0 => log[i].arg # log[i].on
\* in create a delete comes right after a successful checkout of the
\* original branch
RollbackChecksOutFirst ==
    inv.sub = "create" =>
        \A i \in Issued("branch-d") :
            /\ i > 1
            /\ log[i-1].cmd = "checkout" /\ log[i-1].arg = loc.original
            /\ log[i-1].rc = 0 /\ ~log[i-1].intr
            /\ log[i].on = loc.original
            /\ log[i].arg \in {loc.tmp, loc.new} /\ log[i].arg # loc.original

\* C37: no operation deletes the branch that is checked out: the rollbacks
\* of create check out the original branch, successfully, right before they
\* delete the temp/change branch, no delete (gc's included) succeeds on the
\* current branch, and the checked-out branch always exists, so also at
\* every termination.
C37_CurrentBranchNeverDeleted ==
    /\ repo.current \in repo.branches
    /\ DeletesSpareCurrent
    /\ RollbackChecksOutFirst

\* a push rollback that deleted the change branch from the original branch
C37_Witness ==
    /\ CreateTerminated
    /\ IssuedFailed("push") # {}
    /\ \E i \in IssuedOk("branch-d") : log[i].arg = ChangeBranchName(IdA)
    /\ repo.current = inv.pre.current
    /\ ChangeBranchName(IdA) \notin repo.branches

\* gc run on a change branch: git refuses to delete it
C37_WitnessGc ==
    /\ Terminated /\ inv.sub = "gc"
    /\ IsChangeBranch(repo.current)
    /\ \E i \in IssuedFailed("branch-d") : log[i].arg = repo.current


\* ------------------------------------------------ which branches gc and list see
\* The user's repository may hold branches of their own: here one named
\* change-log next to master, with or without a change branch made by
\* create, any of them checked out.
CHANGE_LOG == <<"c","h","a","n","g","e","-","l","o","g">>
LocalRepos ==
    LET r0 == InitRepo(MsgNoId, FALSE)
        r1 == GitCheckout(GitCheckoutNew(r0, CHANGE_LOG).repo, MASTER).repo
        r2 == [ChangeRepo(FALSE) EXCEPT
                  !.branches = @ \cup {CHANGE_LOG},
                  !.tip = [b \in ChangeRepo(FALSE).branches \cup {CHANGE_LOG} |->
                             IF b = CHANGE_LOG THEN 1 ELSE ChangeRepo(FALSE).tip[b]]]
    IN  {[r EXCEPT !.current = b] : r \in {r1, r2}, b \in {MASTER, CHANGE_LOG}}
           \cup {r2}

InitLocal ==
    /\ repo \in LocalRepos
    /\ gerrit = {}
    /\ pc = "idle"
    /\ inv = NoInvocation
    /\ loc = NoLocals
    /\ log = <<>>
    /\ exitCode = 0
    /\ crashed = FALSE
    /\ runs = 0
    /\ clock = 1

StartGcOrList == StartOneOf({"gc", "list"})
NextLocal == StartGcOrList \/ Return \/ GarbageCollect \/ List
SpecLocal == InitLocal /\ [][NextLocal]_vars

GcOrList == inv.sub \in {"gc", "list"} /\ ~DryRun
\* the branches gc goes through, or list shows in its menu
BranchesActedOn == SetOf(loc.todo) \cup {log[i].arg : i \in Issued("branch-d")}

\* C38 (as claimed): gc attempts to delete, and list offers, only branches
\* named change-<change-id> with the change-id beginning with I.
C38_OnlyChangeBranches ==
    GcOrList => \A b \in BranchesActedOn : IsChangeBranch(b)

\* What get_change_branches guarantees: the names begin with change-.
OnlyChangeDashBranches ==
    GcOrList => \A b \in BranchesActedOn : IsChangeRef(b) /\ b \in inv.pre.branches


\* ------------------------------------------------- the target of create's push
\* the branches create pushed to: refs/for/<target>
PushTargets == {log[i].arg : i \in Issued("push")}
\* the branch Gerrit records for the change of the branch create started on
PreviousChangeBranches ==
    {g.branch : g \in {h \in gerrit : ChangeBranchName(h.id) = inv.pre.current}}

TargetIsOriginalOrRecorded ==
    inv.sub = "create" =>
        \A target \in PushTargets :
            /\ ~inv.flags.chain => target = inv.pre.current /\ ~IsChangeBranch(target)
            /\ inv.flags.chain => target \in PreviousChangeBranches

====
